---- MODULE Spec2Model ----
(***************************************************************************)
(* CLARA backend: the alert agent (services/alert_agent.py), its owner     *)
(* (main.py lifespan), the request handlers that reach it                  *)
(* (routers/alerts.py, routers/portfolio.py) and the quote cascade         *)
(* (services/stock_data.py, services/alpha_vantage.py).                    *)
(*                                                                         *)
(* The agent runs on one asyncio event loop: a coroutine runs without      *)
(* interruption until it reaches an await that really suspends, so every   *)
(* action below is one such uninterrupted segment of a coroutine or one    *)
(* synchronous method call.                                                *)
(***************************************************************************)
EXTENDS Integers, Sequences, FiniteSets, TLC

\* ---- bounds of the model ------------------------------------------------
MaxTime   == 8      \* the clock runs over 0..MaxTime hours
TickHours == 4      \* hours by which one Tick advances the clock
MaxAlerts == 2      \* firings (alerts_today) explored per behaviour of Spec
MaxDay    == 2      \* the dates explored are 1..MaxDay
MaxBatches == 2     \* get_quotes_batch calls explored per behaviour
RingFirings == 502  \* firings (alerts_today) explored per behaviour of SpecRing
MaxChecks == 2      \* check_breaches calls of configured portfolios explored per behaviour
AckAlerts == 3      \* firings (alerts_today) explored per behaviour of SpecAck
MaxShares == 21     \* lots are merged while the position stays within this many shares
LifeAlerts == 2     \* firings explored per behaviour of SpecLife
FireAlerts == 2     \* firings (alerts_today) explored per behaviour of SpecFire

\* ---- program constants --------------------------------------------------
ALERT_COOLDOWN_HOURS == 4      \* config.py: Settings.ALERT_COOLDOWN_HOURS
IN_APP_CAP           == 200    \* alert_agent.py: in_app_alerts[:200]
EMAIL_LOG_CAP        == 500    \* alert_agent.py: email_logs[:500]
ALPHA_VANTAGE_DAILY_LIMIT == 25 \* config.py: Settings.ALPHA_VANTAGE_DAILY_LIMIT

None == -1                     \* absent dictionary entry / Python None

Symbols    == {"AAPL", "MSFT"}
AlertTypes == {"SELL_TARGET_HIT", "STOP_LOSS_HIT", "TRAILING_STOP_HIT", "BULL_TARGET_HIT"}
Keys       == Symbols \X AlertTypes
Prices     == 1..3

Min(a, b) == IF a < b THEN a ELSE b

VARIABLES
  config,              \* AlertAgent.config (AlertConfig)
  holdings,            \* AlertAgent.holdings: list of position dicts
  in_app_alerts,       \* AlertAgent.in_app_alerts, newest first
  email_logs,          \* AlertAgent.email_logs, newest first
  cooldowns,           \* AlertAgent._cooldowns: key -> time of last send, or None
  alerts_today,        \* AlertAgent.alerts_today
  running,             \* AlertAgent._running
  status,              \* AlertAgent.status
  now,                 \* datetime.utcnow(), in hours
  sendgrid_configured, \* email_service._sendgrid_configured()
  smtp_configured,     \* email_service._smtp_configured()
  loop,                \* the run_monitoring_loop task: where it is suspended, and its locals
  test,                \* the POST /api/alerts/test handler: where it is suspended, its locals, its result
  lastFire,            \* history: key -> time of the key's last firing since its last reset, or None
  stopSignalled,       \* history: stop() has been called
  ev,                  \* history: what the step that led to this state did (see NoEvents)
  av_configured,       \* alpha_vantage._is_configured()
  td_configured,       \* stock_data._twelvedata_configured()
  today,               \* date.today(), as a day number
  rate_counter,        \* alpha_vantage._rate_counter: date -> requests counted
  sim_prices,          \* stock_data._sim_prices: the symbols that have an entry
  qtasks,              \* the get_quote coroutines of the batch in progress, by position
  qbatch,              \* the get_quotes_batch call in progress, and what it returned
  issued,              \* history: date -> requests sent to Alpha Vantage on that date
  _configs,            \* BreachMonitor._configs: portfolio_id -> BreachMonitorConfig
  _breach_history,     \* BreachMonitor._breach_history: portfolio_id -> list of BreachEvent
  _last_check,         \* BreachMonitor._last_check: portfolio_id -> time of the last check
  bclock,              \* datetime.utcnow() as the breach monitor reads it: one tick per check
  bev,                 \* history: what the breach monitor call that led to this state did
  args,                \* the call under study: its arguments and, while suspended, its locals
  ret,                 \* what that call returned
  _positions           \* routers/portfolio.py _positions: id -> PortfolioPosition

avars == <<config, holdings, in_app_alerts, email_logs, cooldowns, alerts_today,
           running, status, now, sendgrid_configured, smtp_configured,
           loop, test, lastFire, stopSignalled, ev>>
qvars == <<av_configured, td_configured, today, rate_counter, sim_prices, qtasks, qbatch, issued>>
bvars == <<_configs, _breach_history, _last_check, bclock, bev>>
pvars == <<args, ret, _positions>>
vars  == <<avars, qvars, bvars, pvars>>

\* ---- data ---------------------------------------------------------------

\* models/schemas.py AlertConfig defaults (the fields the agent reads)
AlertConfig ==
  [ user_email             |-> "",
    enabled                |-> FALSE,
    alert_on_sell_target   |-> TRUE,
    alert_on_stop_loss     |-> TRUE,
    alert_on_trailing_stop |-> TRUE,
    alert_on_bull_target   |-> FALSE ]

\* A registered position dict (EnrichedPosition.dict()): the fields _check_once reads.
Holding(sym, price) ==
  [ symbol |-> sym, current_price |-> price,
    sell_target |-> 3, stop_loss |-> 1, trailing_stop |-> 1, bull_target |-> 3 ]

\* The lists register_holdings is called with (routers/portfolio.py never registers an empty list).
HoldingLists ==
  { <<Holding("AAPL", 2)>> }

\* The partial updates PUT /api/alerts/config is called with (None-valued fields already dropped).
Updates ==
  { [k \in {"enabled"} |-> TRUE],
    [k \in {"enabled"} |-> FALSE],
    [k \in {"user_email"} |-> "u@x"] }

IdleLoop == [pc |-> "idle", list |-> <<>>, shared |-> FALSE, quotes |-> <<>>,
             idx |-> 0, chk |-> 0, alert |-> 0, stage |-> "none"]
NoResult == [kind |-> "none"]
\* ev.attempts: the _fire_alert calls of the step; ev.assigned: the values it assigned to
\* status, in order; ev.raised: an exception was raised inside a cycle;
\* ev.returned: what send_test_alert returned, if it returned in the step
\* ev.reset: the key DELETE /api/alerts/cooldown was called with, if the step is that call
\* ev.ack: the acknowledge_alert call of the step: its id, what it returned, and whether
\* an alert of that id was acknowledged already
NoAck    == [called |-> FALSE, id |-> 0, found |-> FALSE, was |-> FALSE]
NoEvents == [attempts |-> {}, assigned |-> <<>>, raised |-> FALSE, returned |-> NoResult,
             reset |-> <<>>, ack |-> NoAck]
\* bev.op: the BreachMonitor method called in the step, bev.raised: it raised,
\* bev.summary: the summary check_breaches was called with, bev.breaches: what it returned
NoBreachEvents == [op |-> "none", portfolio_id |-> "", raised |-> FALSE, breaches |-> <<>>,
                   summary |-> [var_1d_95 |-> 0, total_gain_loss_pct |-> 0,
                               total_value |-> 0]]
NoCall   == [fn |-> "none"]
IdleTest == [pc |-> "none", symbol |-> "", alert_type |-> "", alert |-> 0, stage |-> "none"]

\* ---- cooldown -------------------------------------------------------------

\* _can_send with the comparison turned round: a key may fire only inside its window
_can_send_inside(cd, symbol, alert_type, t) ==
  LET last_sent == cd[<<symbol, alert_type>>]
  IN  IF last_sent = None THEN TRUE
      ELSE t - last_sent < ALERT_COOLDOWN_HOURS

\* AlertAgent._can_send
_can_send(cd, symbol, alert_type, t) ==
  LET last_sent == cd[<<symbol, alert_type>>]
  IN  IF last_sent = None THEN TRUE
      ELSE t - last_sent > ALERT_COOLDOWN_HOURS

\* the entry is not written before the dispatch
_mark_sent_skipped(cd, symbol, alert_type, t) ==
  cd

\* AlertAgent._mark_sent
_mark_sent(cd, symbol, alert_type, t) ==
  [cd EXCEPT ![<<symbol, alert_type>>] = t]

\* reset_cooldown that pops nothing
reset_cooldown_noop(cd, symbol, alert_type) ==
  cd

\* AlertAgent.reset_cooldown: dict.pop(key, None)
reset_cooldown(cd, symbol, alert_type) ==
  [cd EXCEPT ![<<symbol, alert_type>>] = None]

\* ---- ring buffers ---------------------------------------------------------

\* a full buffer refuses the new entry
InsertCapped_keeps_oldest(buf, x, cap) ==
  IF Len(buf) < cap THEN <<x>> \o buf ELSE buf

\* list.insert(0, x) followed by list[:cap]
InsertCapped(buf, x, cap) ==
  SubSeq(<<x>> \o buf, 1, Min(Len(buf) + 1, cap))

\* the flag is set on the newest alert
Backfill_head(buf, id, sent) ==
  [i \in DOMAIN buf |-> IF i = 1 THEN [buf[i] EXCEPT !.email_sent = sent] ELSE buf[i]]

\* _fire_alert lines 169-172: set email_sent on the alert with this id
Backfill(buf, id, sent) ==
  [i \in DOMAIN buf |->
     IF buf[i].id = id THEN [buf[i] EXCEPT !.email_sent = sent] ELSE buf[i]]

\* InAppAlert as built by _fire_alert (uuid4 is the number of the firing)
InAppAlert(id, alert_type, symbol) ==
  [ id |-> id, alert_type |-> alert_type, symbol |-> symbol,
    acknowledged |-> FALSE, email_sent |-> FALSE ]

\* AlertLogEntry as returned by send_alert_email (its uuid4 is the number of the firing)
AlertLogEntry(id, alert_type, symbol, sent, provider) ==
  [ id |-> id, alert_type |-> alert_type, symbol |-> symbol, sent |-> sent,
    provider_used |-> provider ]

\* ---- the state a synchronous segment works on ------------------------------

St ==
  [ holdings |-> holdings, in_app_alerts |-> in_app_alerts, email_logs |-> email_logs,
    cooldowns |-> cooldowns, alerts_today |-> alerts_today,
    lastFire |-> lastFire,
    attempts |-> {}, assigned |-> <<>>, raised |-> FALSE, returned |-> NoResult,
    pc |-> loop.pc, list |-> loop.list, shared |-> loop.shared, quotes |-> loop.quotes,
    idx |-> loop.idx, chk |-> loop.chk, alert |-> loop.alert, stage |-> loop.stage,
    status |-> status, disp |-> "none", fired |-> 0 ]

\* _fire_alert lines 165-172: record the dispatch result and backfill the alert
RecordEmail(S, id, alert_type, symbol, sent, provider) ==
  [S EXCEPT
     !.email_logs    = InsertCapped(@, AlertLogEntry(id, alert_type, symbol, sent, provider), EMAIL_LOG_CAP),
     !.in_app_alerts = Backfill(@, id, sent)]

\* _fire_alert up to its first suspension.  disp tells how it left:
\*   "none"  no email dispatch (cooldown, or notifications off / no address)
\*   "sync"  send_alert_email returned without suspending (no provider configured)
\*   "sg" / "smtp"  suspended in _send_sendgrid / _send_smtp
_fire_alert(S, alert_type, holding, via) ==
  LET symbol == holding.symbol
      key    == <<symbol, alert_type>>
      att    == [symbol |-> symbol, alert_type |-> alert_type, via |-> via, at |-> now,
                 prev |-> S.lastFire[key], created |-> FALSE, emailed |-> FALSE]
  IN
  IF ~_can_send(S.cooldowns, symbol, alert_type, now)
  THEN [S EXCEPT !.attempts = @ \cup {att}, !.disp = "none"]
  ELSE
    LET id    == S.alerts_today + 1
        alert == InAppAlert(id, alert_type, symbol)
        S1    == [S EXCEPT
                    !.cooldowns     = _mark_sent(@, symbol, alert_type, now),
                    !.in_app_alerts = InsertCapped(@, alert, IN_APP_CAP),
                    !.alerts_today  = @ + 1,
                    !.lastFire      = [@ EXCEPT ![key] = now],
                    !.fired         = id]
        dispatch == config.enabled /\ config.user_email # ""
        disp  == IF ~dispatch THEN "none"
                 ELSE IF sendgrid_configured THEN "sg"
                 ELSE IF smtp_configured THEN "smtp"
                 ELSE "sync"
        S2    == IF disp = "sync"
                 THEN RecordEmail(S1, id, alert_type, symbol, FALSE, "none")
                 ELSE S1
    IN [S2 EXCEPT
          !.attempts = @ \cup {[att EXCEPT !.created = TRUE, !.emailed = dispatch]},
          !.disp = disp]

\* ---- the monitoring cycle ---------------------------------------------------

\* _check_once lines 200-210: the order of the four threshold checks
CheckOrder == <<"SELL_TARGET_HIT", "STOP_LOSS_HIT", "TRAILING_STOP_HIT", "BULL_TARGET_HIT">>

\* the per-type toggle of AlertConfig read by _check_once
Toggle(cfg, alert_type) ==
  CASE alert_type = "SELL_TARGET_HIT"   -> cfg.alert_on_sell_target
    [] alert_type = "STOP_LOSS_HIT"     -> cfg.alert_on_stop_loss
    [] alert_type = "TRAILING_STOP_HIT" -> cfg.alert_on_trailing_stop
    [] alert_type = "BULL_TARGET_HIT"   -> cfg.alert_on_bull_target

\* the threshold comparisons of _check_once
Crossed(alert_type, price, h) ==
  CASE alert_type = "SELL_TARGET_HIT"   -> price >= h.sell_target
    [] alert_type = "STOP_LOSS_HIT"     -> price <= h.stop_loss
    [] alert_type = "TRAILING_STOP_HIT" -> price <= h.trailing_stop
    [] alert_type = "BULL_TARGET_HIT"   -> price >= h.bull_target

\* the next cycle begins where the sleep is due
EndCycle_no_sleep(S, pc) ==
  [S EXCEPT !.pc = IF pc = "sleep" THEN "fetch" ELSE pc, !.list = <<>>, !.shared = FALSE,
            !.quotes = <<>>, !.idx = 0, !.chk = 0, !.alert = 0, !.stage = "none"]

\* the loop's locals are dead outside a cycle
EndCycle(S, pc) ==
  [S EXCEPT !.pc = pc, !.list = <<>>, !.shared = FALSE, !.quotes = <<>>,
            !.idx = 0, !.chk = 0, !.alert = 0, !.stage = "none"]

\* _check_once lines 190-210, from check k of holding i (k = 0: lines 191-196)
\* up to the next suspension (an email dispatch) or the end of the list.
RECURSIVE RunChecks(_, _, _)
RunChecks(S, i, k) ==
  IF i > Len(S.list) THEN EndCycle(S, "sleep")
  ELSE IF k = 0 THEN
    LET h     == S.list[i]
        price == IF h.symbol \in DOMAIN S.quotes THEN S.quotes[h.symbol] ELSE h.current_price
        list2 == [S.list EXCEPT ![i].current_price = price]
    IN  RunChecks([S EXCEPT !.list = list2,
                            !.holdings = IF S.shared THEN list2 ELSE @], i, 1)
  ELSE IF k > Len(CheckOrder) THEN RunChecks(S, i + 1, 0)
  ELSE
    LET h  == S.list[i]
        ty == CheckOrder[k]
    IN  IF Toggle(config, ty) /\ Crossed(ty, h.current_price, h)
        THEN LET F == _fire_alert(S, ty, h, "loop")
             IN  IF F.disp \in {"sg", "smtp"}
                 THEN [F EXCEPT !.pc = "email", !.idx = i, !.chk = k,
                                !.alert = F.fired, !.stage = F.disp]
                 ELSE RunChecks(F, i, k + 1)
        ELSE RunChecks(S, i, k + 1)

\* the exception is not caught and ends the task
OnCycleException_propagates(S) ==
  [EndCycle(S, "exited") EXCEPT !.raised = TRUE]

\* An exception raised inside a cycle: _check_once lines 184-186 catch the fetch's,
\* run_monitoring_loop lines 225-226 catch every other; the task goes on to its sleep.
OnCycleException(S) ==
  [EndCycle(S, "sleep") EXCEPT !.raised = TRUE]

\* the loop body without its else branch: status is never set to paused
LoopTop_no_pause(S, r) ==
  IF ~r THEN EndCycle(S, "exited")
  ELSE IF config.enabled /\ S.holdings # <<>>
  THEN [S EXCEPT !.status = "running", !.assigned = Append(@, "running"), !.pc = "fetch",
                 !.quotes = [s \in {S.holdings[i].symbol : i \in DOMAIN S.holdings} |-> 0]]
  ELSE EndCycle(S, "sleep")

\* run_monitoring_loop lines 220-230: the while test and the body up to its first suspension
LoopTop(S, r) ==
  IF ~r THEN EndCycle(S, "exited")
  ELSE IF config.enabled /\ S.holdings # <<>>
  THEN [S EXCEPT !.status = "running", !.assigned = Append(@, "running"), !.pc = "fetch",
                 !.quotes = [s \in {S.holdings[i].symbol : i \in DOMAIN S.holdings} |-> 0]]
  ELSE [EndCycle(S, "sleep") EXCEPT !.status = "paused", !.assigned = Append(@, "paused")]

Commit(S) ==
  /\ holdings'      = S.holdings
  /\ in_app_alerts' = S.in_app_alerts
  /\ email_logs'    = S.email_logs
  /\ cooldowns'     = S.cooldowns
  /\ alerts_today'  = S.alerts_today
  /\ lastFire'      = S.lastFire
  /\ ev'            = [attempts |-> S.attempts, assigned |-> S.assigned,
                       raised |-> S.raised, returned |-> S.returned, reset |-> <<>>,
                       ack |-> NoAck]
  /\ status'        = S.status
  /\ loop'          = [pc |-> S.pc, list |-> S.list, shared |-> S.shared, quotes |-> S.quotes,
                       idx |-> S.idx, chk |-> S.chk, alert |-> S.alert, stage |-> S.stage]

\* what no action of the agent changes: the deployment settings, the quote cascade, the
\* breach monitor and the pure functions
Settings == <<sendgrid_configured, smtp_configured, qvars, bvars, pvars>>
Up == loop.pc # "cancelled"

\* ---- the monitoring task ------------------------------------------------------

\* run_monitoring_loop lines 216-217, then the first pass of the while loop.
\* The task is created by main.py lifespan (or again by the owner after it exited).
RunMonitoringLoop ==
  /\ loop.pc \in {"idle", "exited"}
  /\ running' = TRUE
  /\ Commit(LoopTop([St EXCEPT !.status = "running", !.assigned = <<"running">>], TRUE))
  /\ UNCHANGED <<config, now, Settings, test, stopSignalled>>

\* asyncio.sleep returns: the while test and the next pass
SleepDone ==
  /\ loop.pc = "sleep"
  /\ Commit(LoopTop(St, running))
  /\ UNCHANGED <<config, running, now, Settings, test, stopSignalled>>

\* get_quotes_batch returns the quotes of the requested symbols; _check_once runs its checks
FetchDone(q, cap) ==
  /\ loop.pc = "fetch"
  /\ LET R == RunChecks([St EXCEPT !.quotes = q, !.list = holdings, !.shared = TRUE], 1, 0)
     IN  /\ R.alerts_today <= cap
         /\ Commit(R)
  /\ UNCHANGED <<config, running, now, Settings, test, stopSignalled>>

\* get_quotes_batch raises: _check_once lines 184-186 log and return
FetchRaise ==
  /\ loop.pc = "fetch"
  /\ Commit(OnCycleException(St))
  /\ UNCHANGED <<config, running, now, Settings, test, stopSignalled>>

\* send_alert_email, called from the cycle, resumes from _send_sendgrid / _send_smtp
LoopEmailDone(ok, cap) ==
  /\ loop.pc = "email"
  /\ LET h  == loop.list[loop.idx]
         ty == CheckOrder[loop.chk]
     IN  IF loop.stage = "sg" /\ ~ok /\ smtp_configured
         THEN Commit([St EXCEPT !.stage = "smtp"])
         ELSE LET provider == IF loop.stage = "sg" THEN "sendgrid" ELSE "smtp"
                  S1 == RecordEmail(St, loop.alert, ty, h.symbol, ok, provider)
                  R  == RunChecks([S1 EXCEPT !.alert = 0, !.stage = "none"], loop.idx, loop.chk + 1)
              IN  /\ R.alerts_today <= cap
                  /\ Commit(R)
  /\ UNCHANGED <<config, running, now, Settings, test, stopSignalled>>

\* an exception is raised in the cycle as it resumes from an email dispatch:
\* run_monitoring_loop lines 225-226 catch it
LoopEmailRaise ==
  /\ loop.pc = "email"
  /\ Commit(OnCycleException(St))
  /\ UNCHANGED <<config, running, now, Settings, test, stopSignalled>>

\* AlertAgent.stop
Stop ==
  /\ Up
  /\ running' = FALSE
  /\ status' = "stopped"
  /\ stopSignalled' = TRUE
  /\ ev' = [NoEvents EXCEPT !.assigned = <<"stopped">>]
  /\ UNCHANGED <<config, holdings, in_app_alerts, email_logs, cooldowns, alerts_today,
                 now, Settings, loop, test, lastFire>>

\* main.py lifespan shutdown: task.cancel() raises CancelledError at the task's await
LifespanShutdown ==
  /\ loop.pc \in {"idle", "fetch", "email", "sleep"}
  /\ loop' = [IdleLoop EXCEPT !.pc = "cancelled"]
  /\ ev' = NoEvents
  /\ UNCHANGED <<config, holdings, in_app_alerts, email_logs, cooldowns, alerts_today,
                 running, status, now, Settings, test, lastFire, stopSignalled>>

\* ---- request handlers -----------------------------------------------------------

\* AlertAgent.update_config
UpdateConfig(updates) ==
  /\ Up
  /\ config' = [k \in DOMAIN config |-> IF k \in DOMAIN updates THEN updates[k] ELSE config[k]]
  /\ ev' = NoEvents
  /\ UNCHANGED <<holdings, in_app_alerts, email_logs, cooldowns, alerts_today, running, status,
                 now, Settings, loop, test, lastFire, stopSignalled>>

\* register_holdings that also empties the cooldown table
RegisterHoldings_new_cooldowns(hs) ==
  /\ Up
  /\ holdings' = hs
  /\ cooldowns' = [k \in Keys |-> None]
  /\ loop' = [loop EXCEPT !.shared = FALSE]
  /\ ev' = NoEvents
  /\ UNCHANGED <<config, in_app_alerts, email_logs, alerts_today, running, status,
                 now, Settings, test, lastFire, stopSignalled>>

\* AlertAgent.register_holdings: a new list object replaces the registry
RegisterHoldings(hs) ==
  /\ Up
  /\ holdings' = hs
  /\ loop' = [loop EXCEPT !.shared = FALSE]
  /\ ev' = NoEvents
  /\ UNCHANGED <<config, in_app_alerts, email_logs, cooldowns, alerts_today, running, status,
                 now, Settings, test, lastFire, stopSignalled>>

\* the handler pops every key
ResetCooldown_all(symbol, alert_type) ==
  /\ Up
  /\ cooldowns' = [k \in Keys |-> None]
  /\ lastFire' = [k \in Keys |-> None]
  /\ ev' = [NoEvents EXCEPT !.reset = <<symbol, alert_type>>]
  /\ UNCHANGED <<config, holdings, in_app_alerts, email_logs, alerts_today, running, status,
                 now, Settings, loop, test, stopSignalled>>

\* DELETE /api/alerts/cooldown/{symbol}/{alert_type}
ResetCooldown(symbol, alert_type) ==
  /\ Up
  /\ cooldowns' = reset_cooldown(cooldowns, symbol, alert_type)
  /\ lastFire' = [lastFire EXCEPT ![<<symbol, alert_type>>] = None]
  /\ ev' = [NoEvents EXCEPT !.reset = <<symbol, alert_type>>]
  /\ UNCHANGED <<config, holdings, in_app_alerts, email_logs, alerts_today, running, status,
                 now, Settings, loop, test, stopSignalled>>

\* the positions of the alerts with this id
Matches(buf, alert_id) == {i \in DOMAIN buf : buf[i].id = alert_id}

\* the flag is flipped instead of set
acknowledge_alert_flips(buf, alert_id) ==
  LET I == Matches(buf, alert_id)
  IN  IF I = {} THEN buf
      ELSE LET i == CHOOSE j \in I : \A k \in I : j <= k
           IN  [buf EXCEPT ![i].acknowledged = ~@]

\* AlertAgent.acknowledge_alert: the first alert with this id gets acknowledged = True
acknowledge_alert(buf, alert_id) ==
  LET I == Matches(buf, alert_id)
  IN  IF I = {} THEN buf
      ELSE LET i == CHOOSE j \in I : \A k \in I : j <= k
           IN  [buf EXCEPT ![i].acknowledged = TRUE]

\* POST /api/alerts/in-app/{alert_id}/acknowledge (404 when the agent returns False)
AcknowledgeAlert(alert_id) ==
  /\ Up
  /\ in_app_alerts' = acknowledge_alert(in_app_alerts, alert_id)
  /\ ev' = [NoEvents EXCEPT !.ack =
               [called |-> TRUE, id |-> alert_id,
                found  |-> Matches(in_app_alerts, alert_id) # {},
                was    |-> \E i \in Matches(in_app_alerts, alert_id) :
                              in_app_alerts[i].acknowledged]]
  /\ UNCHANGED <<config, holdings, email_logs, cooldowns, alerts_today, running, status,
                 now, Settings, loop, test, lastFire, stopSignalled>>

\* AlertAgent.clear_all_alerts
ClearAllAlerts ==
  /\ Up
  /\ in_app_alerts' = <<>>
  /\ ev' = NoEvents
  /\ UNCHANGED <<config, holdings, email_logs, cooldowns, alerts_today, running, status,
                 now, Settings, loop, test, lastFire, stopSignalled>>

\* the clock
Tick ==
  /\ now + TickHours <= MaxTime
  /\ now' = now + TickHours
  /\ ev' = NoEvents
  /\ UNCHANGED <<config, holdings, in_app_alerts, email_logs, cooldowns, alerts_today,
                 running, status, Settings, loop, test, lastFire, stopSignalled>>

\* ---- POST /api/alerts/test --------------------------------------------------------

\* send_test_alert line 256: return self.in_app_alerts[0] if self.in_app_alerts else None
\* (symbol and alert_type record the request the result answers)
TestResult(buf, symbol, alert_type) ==
  IF buf # <<>>
  THEN [kind |-> "alert", alert |-> buf[1], symbol |-> symbol, alert_type |-> alert_type]
  ELSE [kind |-> "None", symbol |-> symbol, alert_type |-> alert_type]

\* send_test_alert line 250: the first registered holding of the symbol, if any
FindHolding(hs, symbol) ==
  LET I == {i \in DOMAIN hs : hs[i].symbol = symbol}
  IN  IF I = {} THEN <<>>
      ELSE <<hs[CHOOSE i \in I : \A j \in I : i <= j]>>

\* AlertAgent.send_test_alert up to its first suspension (or its return)
SendTestAlert(symbol, alert_type, cap) ==
  /\ Up
  /\ test.pc = "none"
  /\ LET found == FindHolding(holdings, symbol)
         call  == [IdleTest EXCEPT !.symbol = symbol, !.alert_type = alert_type]
     IN
     IF found = <<>>
     THEN /\ test' = IdleTest
          /\ ev' = [NoEvents EXCEPT !.returned = TestResult(<<>>, symbol, alert_type)]
          /\ UNCHANGED <<holdings, in_app_alerts, email_logs, cooldowns, alerts_today,
                         lastFire, status, loop>>
     ELSE LET S0 == [St EXCEPT
                       !.cooldowns = reset_cooldown(@, symbol, alert_type),
                       !.lastFire  = [@ EXCEPT ![<<symbol, alert_type>>] = None]]
              F  == _fire_alert(S0, alert_type, found[1], "test")
          IN  /\ F.alerts_today <= cap
              /\ IF F.disp \in {"sg", "smtp"}
                 THEN /\ test' = [call EXCEPT !.pc = "email", !.alert = F.fired, !.stage = F.disp]
                      /\ Commit(F)
                 ELSE /\ test' = IdleTest
                      /\ Commit([F EXCEPT !.returned = TestResult(F.in_app_alerts, symbol, alert_type)])
  /\ UNCHANGED <<config, running, now, Settings, stopSignalled>>

\* send_alert_email, called from send_test_alert, resumes from _send_sendgrid / _send_smtp
TestEmailDone(ok) ==
  /\ Up
  /\ test.pc = "email"
  /\ IF test.stage = "sg" /\ ~ok /\ smtp_configured
     THEN /\ test' = [test EXCEPT !.stage = "smtp"]
          /\ ev' = NoEvents
          /\ UNCHANGED <<holdings, in_app_alerts, email_logs, cooldowns, alerts_today,
                         lastFire, status, loop>>
     ELSE LET provider == IF test.stage = "sg" THEN "sendgrid" ELSE "smtp"
              S1 == RecordEmail(St, test.alert, test.alert_type, test.symbol, ok, provider)
          IN  /\ test' = IdleTest
              /\ Commit([S1 EXCEPT !.returned = TestResult(S1.in_app_alerts, test.symbol, test.alert_type)])
  /\ UNCHANGED <<config, running, now, Settings, stopSignalled>>

\* ---- quote resolution (services/stock_data.py, services/alpha_vantage.py) ------------

\* the symbol lists get_quotes_batch is called with
QuoteLists == { <<>>, <<"AAPL">>, <<"AAPL", "ZZZZINVALID">> }
Dates      == 1..MaxDay
\* the provider order of get_quote
Providers  == <<"alpha_vantage", "yahoo_finance", "twelve_data", "simulated">>
\* what the Alpha Vantage request of _get can end in: a quote payload, a payload with a
\* "Note"/"Information" key (rate limited), a payload without a usable "Global Quote"
\* (or one whose fields raise KeyError/ValueError), a payload whose shape or field types
\* raise TypeError/AttributeError in fetch_quote, and a timeout / HTTP error / invalid JSON
AvResponses == {"quote", "note", "no_quote", "malformed", "failed"}
\* the counts _rate_counter holds for the first date when the batches explored begin
StartCounts == {0, ALPHA_VANTAGE_DAILY_LIMIT - 1, ALPHA_VANTAGE_DAILY_LIMIT}

NoOutput == [s \in {} |-> ""]
NoBatch  == [pc |-> "none", symbols |-> <<>>, output |-> NoOutput, calls |-> 0]
QTask(symbol) == [symbol |-> symbol, pc |-> "start", result |-> "none", missed |-> {}]

_get_rate_count(rc, d) == rc[d]

_increment_rate(rc, d) == [rc EXCEPT ![d] = rc[d] + 1]

_within_limit(rc, d) == _get_rate_count(rc, d) < ALPHA_VANTAGE_DAILY_LIMIT

get_rate_status(rc, d) ==
  [requests_today |-> _get_rate_count(rc, d),
   daily_limit    |-> ALPHA_VANTAGE_DAILY_LIMIT,
   within_limit   |-> _get_rate_count(rc, d) < ALPHA_VANTAGE_DAILY_LIMIT,
   configured     |-> av_configured]

\* _get after the response: is the request counted, and is a payload returned
_get(resp) ==
  [counted |-> resp # "failed",
   data    |-> IF resp \in {"failed", "note"} THEN "None" ELSE resp]

\* fetch_quote on what _get returned: the quote, None, or an exception that is neither
\* KeyError nor ValueError
fetch_quote(data) ==
  CASE data = "quote"     -> "alpha_vantage"
    [] data = "malformed" -> "raise"
    [] OTHER              -> "None"

\* the simulated price is drawn afresh and no entry is kept
_sim_price_stateless(sp, symbol) == sp

\* _sim_price: the symbol has an entry afterwards
_sim_price(sp, symbol) == sp \cup {symbol}

Done(t, result) == [t EXCEPT !.pc = "done", !.result = result]
Miss(t, provider, pc) == [t EXCEPT !.pc = pc, !.missed = @ \cup {provider}]

\* get_quotes_batch: the coroutines are created and gather schedules them
GetQuotesBatch(symbols) ==
  /\ qbatch.pc \in {"none", "done"}
  /\ qbatch.calls < MaxBatches
  /\ qtasks' = [i \in 1..Len(symbols) |-> QTask(symbols[i])]
  /\ qbatch' = [pc |-> "gather", symbols |-> symbols, output |-> NoOutput,
                calls |-> qbatch.calls + 1]
  /\ UNCHANGED <<avars, bvars, pvars, av_configured, td_configured, today, rate_counter, sim_prices, issued>>

\* get_quote up to its first request: the Alpha Vantage request when the key is
\* configured and the count is under the limit, the Yahoo request otherwise
GetQuoteStart(i) ==
  /\ qbatch.pc = "gather"
  /\ qtasks[i].pc = "start"
  /\ LET st == get_rate_status(rate_counter, today)
     IN  IF st.configured /\ st.within_limit /\ av_configured /\ _within_limit(rate_counter, today)
         THEN /\ qtasks' = [qtasks EXCEPT ![i].pc = "av"]
              /\ issued' = [issued EXCEPT ![today] = @ + 1]
         ELSE /\ qtasks' = [qtasks EXCEPT ![i] = Miss(@, "alpha_vantage", "yahoo")]
              /\ UNCHANGED issued
  /\ UNCHANGED <<avars, bvars, pvars, av_configured, td_configured, today, rate_counter, sim_prices, qbatch>>

\* the Alpha Vantage request ends: _get counts it, fetch_quote parses it, get_quote
\* returns the quote or goes on to Yahoo; an exception of fetch_quote ends get_quote
AvDone(i, resp) ==
  /\ qbatch.pc = "gather"
  /\ qtasks[i].pc = "av"
  /\ LET g == _get(resp)
         r == IF g.data = "None" THEN "None" ELSE fetch_quote(g.data)
     IN  /\ rate_counter' = IF g.counted THEN _increment_rate(rate_counter, today)
                            ELSE rate_counter
         /\ qtasks' = [qtasks EXCEPT ![i] =
                         IF r = "None" THEN Miss(@, "alpha_vantage", "yahoo") ELSE Done(@, r)]
  /\ UNCHANGED <<avars, bvars, pvars, av_configured, td_configured, today, sim_prices, qbatch, issued>>

\* _fetch_yahoo_quote ends: its quote, or on to Twelve Data when that is configured, or
\* the simulated quote
YahooDone(i, hit) ==
  /\ qbatch.pc = "gather"
  /\ qtasks[i].pc = "yahoo"
  /\ IF hit
     THEN qtasks' = [qtasks EXCEPT ![i] = Done(@, "yahoo_finance")] /\ UNCHANGED sim_prices
     ELSE IF td_configured
     THEN qtasks' = [qtasks EXCEPT ![i] = Miss(@, "yahoo_finance", "td")] /\ UNCHANGED sim_prices
     ELSE /\ qtasks' = [qtasks EXCEPT ![i] =
                          Done(Miss(Miss(@, "yahoo_finance", "td"), "twelve_data", "sim"),
                               "simulated")]
          /\ sim_prices' = _sim_price(sim_prices, qtasks[i].symbol)
  /\ UNCHANGED <<avars, bvars, pvars, av_configured, td_configured, today, rate_counter, qbatch, issued>>

\* _fetch_twelvedata_quote ends: its price on a simulated quote, or the simulated quote
TwelveDataDone(i, hit) ==
  /\ qbatch.pc = "gather"
  /\ qtasks[i].pc = "td"
  /\ qtasks' = [qtasks EXCEPT ![i] =
                  IF hit THEN Done(@, "twelve_data")
                  ELSE Done(Miss(@, "twelve_data", "sim"), "simulated")]
  /\ sim_prices' = _sim_price(sim_prices, qtasks[i].symbol)
  /\ UNCHANGED <<avars, bvars, pvars, av_configured, td_configured, today, rate_counter, qbatch, issued>>

\* the symbols of the batch whose get_quote ended in an exception
Raised(tasks) == {tasks[i].symbol : i \in {j \in DOMAIN tasks : tasks[j].result = "raise"}}

BatchOutput_keeps_exception(symbols, tasks) ==
  [s \in {symbols[i] : i \in DOMAIN symbols} |->
     LET i == CHOOSE j \in DOMAIN symbols :
                 symbols[j] = s /\ \A k \in DOMAIN symbols : symbols[k] = s => k <= j
     IN  tasks[i].result]

\* the output dict of get_quotes_batch: the simulated quote for a result that is an
\* exception, the result otherwise
BatchOutput(symbols, tasks) ==
  [s \in {symbols[i] : i \in DOMAIN symbols} |->
     LET i == CHOOSE j \in DOMAIN symbols :
                 symbols[j] = s /\ \A k \in DOMAIN symbols : symbols[k] = s => k <= j
     IN  IF tasks[i].result = "raise" THEN "simulated" ELSE tasks[i].result]

\* gather has every result: get_quotes_batch builds its output and returns
GatherDone ==
  /\ qbatch.pc = "gather"
  /\ \A i \in DOMAIN qtasks : qtasks[i].pc = "done"
  /\ qbatch' = [qbatch EXCEPT !.pc = "done", !.output = BatchOutput(qbatch.symbols, qtasks)]
  /\ sim_prices' = sim_prices \cup Raised(qtasks)
  /\ UNCHANGED <<avars, bvars, pvars, av_configured, td_configured, today, rate_counter, qtasks, issued>>

\* midnight: date.today() moves on
NextDate ==
  /\ today < MaxDay
  /\ today' = today + 1
  /\ UNCHANGED <<avars, bvars, pvars, av_configured, td_configured, rate_counter, sim_prices, qtasks,
                 qbatch, issued>>

\* ---- breach monitor (services/breach_monitor.py) --------------------------------------

Portfolios == {"p1", "p2"}

BreachThreshold(metric, threshold, enabled) ==
  [metric |-> metric, threshold |-> threshold, enabled |-> enabled]

\* the threshold lists configure_monitoring is called with
ThresholdLists ==
  { <<BreachThreshold("var_95", 100, TRUE)>>,
    <<BreachThreshold("var_95", 100, FALSE), BreachThreshold("drawdown", 0, TRUE),
      BreachThreshold("es_99", 1, TRUE)>> }

BreachEvent(portfolio_id, t, metric, threshold, actual_value, severity) ==
  [breach_id |-> <<portfolio_id, metric, t>>, portfolio_id |-> portfolio_id, timestamp |-> t,
   metric |-> metric, threshold |-> threshold, actual_value |-> actual_value,
   severity |-> severity, acknowledged |-> FALSE]

\* _extract_metrics: PortfolioSummary has var_1d_95, total_value and total_gain_loss_pct;
\* the other attributes it looks for do not exist
_extract_metrics(summary) ==
  [m \in {"var_95", "total_value"} \cup
         (IF summary.total_gain_loss_pct < 0 THEN {"drawdown"} ELSE {}) |->
     CASE m = "var_95"      -> summary.var_1d_95
       [] m = "total_value" -> summary.total_value
       [] m = "drawdown"    -> 0 - summary.total_gain_loss_pct]

\* the low band includes its upper boundary
_calculate_severity_inclusive(actual_value, threshold) ==
  IF threshold = 0 THEN "ZeroDivisionError"
  ELSE LET Below(k) == IF threshold > 0
                       THEN (actual_value - threshold) * 100 <= k * threshold
                       ELSE (actual_value - threshold) * 100 >= k * threshold
       IN  IF Below(10) THEN "low"
           ELSE IF Below(25) THEN "medium"
           ELSE IF Below(50) THEN "high"
           ELSE "critical"

\* _calculate_severity: excess_pct = ((actual - threshold) / threshold) * 100 compared
\* with 10, 25 and 50; the division raises when threshold is 0
_calculate_severity(actual_value, threshold) ==
  IF threshold = 0 THEN "ZeroDivisionError"
  ELSE LET Below(k) == IF threshold > 0
                       THEN (actual_value - threshold) * 100 < k * threshold
                       ELSE (actual_value - threshold) * 100 > k * threshold
       IN  IF Below(10) THEN "low"
           ELSE IF Below(25) THEN "medium"
           ELSE IF Below(50) THEN "high"
           ELSE "critical"

\* check_breaches lines 133-169: the loop over config.thresholds from position i, on
\* B = [hist: the portfolio's history, breaches: the list being built, raised]
RECURSIVE CheckThresholds(_, _, _, _, _, _)
CheckThresholds(B, thresholds, metrics, portfolio_id, t, i) ==
  IF i > Len(thresholds) THEN B
  ELSE LET th == thresholds[i]
       IN  IF ~th.enabled \/ th.metric \notin DOMAIN metrics
           THEN CheckThresholds(B, thresholds, metrics, portfolio_id, t, i + 1)
           ELSE LET v == metrics[th.metric]
                IN  IF ~(v > th.threshold)
                    THEN CheckThresholds(B, thresholds, metrics, portfolio_id, t, i + 1)
                    ELSE LET sev == _calculate_severity(v, th.threshold)
                             b   == BreachEvent(portfolio_id, t, th.metric, th.threshold, v, sev)
                         IN  IF sev = "ZeroDivisionError"
                             THEN [B EXCEPT !.raised = TRUE]
                             ELSE CheckThresholds(
                                    [B EXCEPT !.hist = Append(@, b), !.breaches = Append(@, b)],
                                    thresholds, metrics, portfolio_id, t, i + 1)

\* configuring again starts the history afresh
ConfigureMonitoring_resets(portfolio_id, thresholds) ==
  /\ _configs' = (portfolio_id :> [portfolio_id |-> portfolio_id, thresholds |-> thresholds,
                                    notification_enabled |-> TRUE]) @@ _configs
  /\ _breach_history' = (portfolio_id :> <<>>) @@ _breach_history
  /\ bev' = [NoBreachEvents EXCEPT !.op = "configure_monitoring", !.portfolio_id = portfolio_id]
  /\ UNCHANGED <<avars, qvars, pvars, _last_check, bclock>>

\* BreachMonitor.configure_monitoring
ConfigureMonitoring(portfolio_id, thresholds) ==
  /\ _configs' = (portfolio_id :> [portfolio_id |-> portfolio_id, thresholds |-> thresholds,
                                    notification_enabled |-> TRUE]) @@ _configs
  /\ _breach_history' = IF portfolio_id \in DOMAIN _breach_history THEN _breach_history
                        ELSE (portfolio_id :> <<>>) @@ _breach_history
  /\ bev' = [NoBreachEvents EXCEPT !.op = "configure_monitoring", !.portfolio_id = portfolio_id]
  /\ UNCHANGED <<avars, qvars, pvars, _last_check, bclock>>

\* BreachMonitor.update_threshold: the first threshold of the metric is changed, or a new
\* one is appended; ValueError when the portfolio has no configuration
UpdateThreshold(portfolio_id, metric, new_threshold, enabled) ==
  /\ IF portfolio_id \notin DOMAIN _configs
     THEN /\ bev' = [NoBreachEvents EXCEPT !.op = "update_threshold",
                                           !.portfolio_id = portfolio_id, !.raised = TRUE]
          /\ UNCHANGED _configs
     ELSE LET ths == _configs[portfolio_id].thresholds
              I   == {i \in DOMAIN ths : ths[i].metric = metric}
              new == IF I = {}
                     THEN Append(ths, BreachThreshold(metric, new_threshold, enabled))
                     ELSE LET i == CHOOSE j \in I : \A k \in I : j <= k
                          IN  [ths EXCEPT ![i].threshold = new_threshold, ![i].enabled = enabled]
          IN  /\ _configs' = [_configs EXCEPT ![portfolio_id].thresholds = new]
              /\ bev' = [NoBreachEvents EXCEPT !.op = "update_threshold",
                                               !.portfolio_id = portfolio_id]
  /\ UNCHANGED <<avars, qvars, pvars, _breach_history, _last_check, bclock>>

\* BreachMonitor.check_breaches (_send_breach_notifications only logs and does not suspend)
CheckBreaches(portfolio_id, summary) ==
  /\ bclock < MaxChecks
  /\ IF portfolio_id \notin DOMAIN _configs
     THEN /\ bev' = [NoBreachEvents EXCEPT !.op = "check_breaches",
                                           !.portfolio_id = portfolio_id, !.summary = summary]
          /\ UNCHANGED <<_breach_history, _last_check, bclock>>
     ELSE LET t == bclock + 1
              R == CheckThresholds(
                     [hist |-> _breach_history[portfolio_id], breaches |-> <<>>, raised |-> FALSE],
                     _configs[portfolio_id].thresholds, _extract_metrics(summary),
                     portfolio_id, t, 1)
          IN  /\ bclock' = t
              /\ _breach_history' = [_breach_history EXCEPT ![portfolio_id] = R.hist]
              /\ _last_check' = IF R.raised THEN _last_check
                                ELSE (portfolio_id :> t) @@ _last_check
              /\ bev' = [op |-> "check_breaches", portfolio_id |-> portfolio_id,
                         raised |-> R.raised, summary |-> summary,
                         breaches |-> IF R.raised THEN <<>> ELSE R.breaches]
  /\ UNCHANGED <<avars, qvars, pvars, _configs>>

\* BreachMonitor.acknowledge_breach: the first event with the id gets acknowledged = True
AcknowledgeBreach(portfolio_id, breach_id) ==
  /\ LET hist == IF portfolio_id \in DOMAIN _breach_history
                 THEN _breach_history[portfolio_id] ELSE <<>>
         I    == {i \in DOMAIN hist : hist[i].breach_id = breach_id}
     IN  IF I = {} THEN UNCHANGED _breach_history
         ELSE LET i == CHOOSE j \in I : \A k \in I : j <= k
              IN  _breach_history' =
                    [_breach_history EXCEPT ![portfolio_id][i].acknowledged = TRUE]
  /\ bev' = [NoBreachEvents EXCEPT !.op = "acknowledge_breach", !.portfolio_id = portfolio_id]
  /\ UNCHANGED <<avars, qvars, pvars, _configs, _last_check, bclock>>

\* BreachMonitor.clear_history
ClearHistory(portfolio_id) ==
  /\ _breach_history' = IF portfolio_id \in DOMAIN _breach_history
                        THEN [_breach_history EXCEPT ![portfolio_id] = <<>>]
                        ELSE _breach_history
  /\ bev' = [NoBreachEvents EXCEPT !.op = "clear_history", !.portfolio_id = portfolio_id]
  /\ UNCHANGED <<avars, qvars, pvars, _configs, _last_check, bclock>>

\* ---- email dispatch (services/email_service.py) ----------------------------------------

\* outcome: what the SendGrid API does with a request: "202" accepts it, "400" answers
\* with an error status, "exception" the HTTP client raises (timeout, connection refused);
\* what the SMTP session does: "sent" delivers, "exception" smtplib raises

\* an exception of the HTTP client leaves _send_sendgrid
_send_sendgrid_propagates(outcome) ==
  CASE outcome = "202" -> [raised |-> FALSE, sent |-> TRUE,  error |-> ""]
    [] outcome = "400" -> [raised |-> FALSE, sent |-> FALSE, error |-> "SendGrid HTTP 400"]
    [] OTHER           -> [raised |-> TRUE,  sent |-> FALSE, error |-> ""]

\* _send_sendgrid: the pair (sent, error) it returns; error "" stands for None
_send_sendgrid(outcome) ==
  CASE outcome = "202" -> [raised |-> FALSE, sent |-> TRUE,  error |-> ""]
    [] outcome = "400" -> [raised |-> FALSE, sent |-> FALSE, error |-> "SendGrid HTTP 400"]
    [] OTHER           -> [raised |-> FALSE, sent |-> FALSE, error |-> "SendGrid exception"]

\* _send_smtp, that is _send_smtp_sync in the executor
_send_smtp(outcome) ==
  IF outcome = "sent" THEN [raised |-> FALSE, sent |-> TRUE,  error |-> ""]
                      ELSE [raised |-> FALSE, sent |-> FALSE, error |-> "SMTP error"]

\* send_alert_email lines 345-361: the default error text and the AlertLogEntry returned
\* (c.tried is history: the providers attempted, in order, and whether each one sent)
EmailReturn(c) ==
  LET error_msg == IF ~c.sent /\ c.error = "" THEN "No email provider configured" ELSE c.error
  IN  /\ ret' = [fn |-> "send_alert_email", raised |-> FALSE, tried |-> c.tried,
                 log |-> [error |-> error_msg]
                         @@ AlertLogEntry(1, c.alert_type, c.symbol, c.sent, c.provider_used)]
      /\ args' = NoCall

\* send_alert_email up to its first suspension (lines 329-343)
SendAlertEmail(alert_type, symbol) ==
  /\ args = NoCall
  /\ LET c == [fn |-> "send_alert_email", pc |-> "start", alert_type |-> alert_type,
               symbol |-> symbol, sent |-> FALSE, error |-> "", provider_used |-> "none",
               tried |-> <<>>]
     IN  IF sendgrid_configured
         THEN args' = [c EXCEPT !.pc = "sendgrid"] /\ ret' = NoCall
         ELSE IF smtp_configured
         THEN args' = [c EXCEPT !.pc = "smtp"] /\ ret' = NoCall
         ELSE EmailReturn(c)
  /\ UNCHANGED <<avars, qvars, bvars, _positions>>

\* send_alert_email resumes from _send_sendgrid (lines 338-343)
SendgridDone(outcome) ==
  /\ args.fn = "send_alert_email" /\ args.pc = "sendgrid"
  /\ LET r == _send_sendgrid(outcome)
         c == [args EXCEPT !.sent = r.sent, !.error = r.error, !.provider_used = "sendgrid",
                           !.tried = Append(@, [provider |-> "sendgrid", sent |-> r.sent])]
     IN  IF r.raised
         THEN /\ ret' = [fn |-> "send_alert_email", raised |-> TRUE, tried |-> c.tried]
              /\ args' = NoCall
         ELSE IF ~c.sent /\ smtp_configured
         THEN args' = [c EXCEPT !.pc = "smtp"] /\ ret' = NoCall
         ELSE EmailReturn(c)
  /\ UNCHANGED <<avars, qvars, bvars, _positions>>

\* send_alert_email resumes from _send_smtp (lines 342-343)
SmtpDone(outcome) ==
  /\ args.fn = "send_alert_email" /\ args.pc = "smtp"
  /\ LET r == _send_smtp(outcome)
         c == [args EXCEPT !.sent = r.sent, !.error = r.error, !.provider_used = "smtp",
                           !.tried = Append(@, [provider |-> "smtp", sent |-> r.sent])]
     IN  EmailReturn(c)
  /\ UNCHANGED <<avars, qvars, bvars, _positions>>

\* ---- positions (routers/portfolio.py) -------------------------------------------------

\* an average cost is a number of ten-thousandths of a dollar (round(new_avg_cost, 4));
\* shares are whole numbers here, which round(total_shares, 6) leaves as they are
CostUnit == 10000
\* the store keeps the average cost of a request as it came, so a stored or requested
\* average cost is a number of hundred-thousandths of a dollar, FineUnit of them to the
\* ten-thousandth
FineUnit == 10

\* the quotient cut off instead of rounded
Round_truncates(n, d) == n \div d

\* Python's round(n / d * unit, ...) / unit on the exact quotient: the nearest unit, a tie
\* going to the even one
Round(n, d) ==
  LET q == n \div d
      r == n % d
  IN  IF 2 * r < d THEN q
      ELSE IF 2 * r > d THEN q + 1
      ELSE IF q % 2 = 0 THEN q ELSE q + 1

\* round(new_avg_cost, 4) of the quotient n / d of hundred-thousandths
Round4(n, d) == Round(n, d * FineUnit) * FineUnit

\* uuid.uuid4(): an id that no stored position has
NewId ==
  CHOOSE i \in 1..(Len(_positions) + 1) :
    /\ \A j \in DOMAIN _positions : _positions[j].id # i
    /\ \A k \in 1..(i - 1) : \E j \in DOMAIN _positions : _positions[j].id = k

\* the place in the store of the position with the id, 0 when there is none
\* (position_id in _positions)
Stored(position_id) ==
  LET I == {i \in DOMAIN _positions : _positions[i].id = position_id}
  IN  IF I = {} THEN 0 ELSE CHOOSE i \in I : TRUE

\* add_position line 66: the first stored position with the symbol, 0 when there is none
Existing(symbol) ==
  LET I == {i \in DOMAIN _positions : _positions[i].symbol = symbol}
  IN  IF I = {} THEN 0 ELSE CHOOSE i \in I : \A j \in I : i <= j

\* add_position; args keeps the request and the position found, ret the position returned
AddPosition(req) ==
  /\ LET e == Existing(req.symbol)
     IN  IF e # 0
         THEN LET existing == _positions[e]
                  old_cost_basis == existing.shares * existing.avg_cost
                  new_cost_basis == req.shares * req.avg_cost
                  total_shares   == existing.shares + req.shares
                  merged == [existing EXCEPT
                               !.shares   = total_shares,
                               !.avg_cost = Round4(old_cost_basis + new_cost_basis, total_shares)]
              IN  /\ total_shares <= MaxShares
                  /\ _positions' = [_positions EXCEPT ![e] = merged]
                  /\ args' = [fn |-> "add_position", req |-> req, existing |-> <<existing>>]
                  /\ ret' = [fn |-> "add_position", position |-> merged]
         ELSE LET pos_id == NewId
                  pos    == [id |-> pos_id, symbol |-> req.symbol, shares |-> req.shares,
                             avg_cost |-> req.avg_cost]
              IN  /\ _positions' = Append(_positions, pos)
                  /\ args' = [fn |-> "add_position", req |-> req, existing |-> <<>>]
                  /\ ret' = [fn |-> "add_position", position |-> pos]
  /\ UNCHANGED <<avars, qvars, bvars>>

\* update_position: HTTP 404 for an id that is not stored; otherwise the fields the
\* request gives (None: not given) are assigned as they came
UpdatePosition(position_id, req) ==
  /\ LET i == Stored(position_id)
     IN  IF i = 0
         THEN /\ ret' = [fn |-> "update_position", status |-> 404]
              /\ UNCHANGED _positions
         ELSE LET pos == [_positions[i] EXCEPT
                            !.shares   = IF req.shares # None THEN req.shares ELSE @,
                            !.avg_cost = IF req.avg_cost # None THEN req.avg_cost ELSE @]
              IN  /\ _positions' = [_positions EXCEPT ![i] = pos]
                  /\ ret' = [fn |-> "update_position", status |-> 200, position |-> pos]
  /\ args' = [fn |-> "update_position", position_id |-> position_id, req |-> req]
  /\ UNCHANGED <<avars, qvars, bvars>>

\* delete_position: HTTP 404 for an id that is not stored; otherwise del _positions[id]
DeletePosition(position_id) ==
  /\ LET i == Stored(position_id)
     IN  IF i = 0
         THEN /\ ret' = [fn |-> "delete_position", status |-> 404]
              /\ UNCHANGED _positions
         ELSE /\ _positions' = [j \in 1..(Len(_positions) - 1) |->
                                  IF j < i THEN _positions[j] ELSE _positions[j + 1]]
              /\ ret' = [fn |-> "delete_position", status |-> 200,
                         deleted |-> position_id, symbol |-> _positions[i].symbol]
  /\ args' = [fn |-> "delete_position", position_id |-> position_id]
  /\ UNCHANGED <<avars, qvars, bvars>>

\* clear_portfolio
ClearPortfolio ==
  /\ _positions # <<>>
  /\ _positions' = <<>>
  /\ args' = [fn |-> "clear_portfolio"]
  /\ ret' = [fn |-> "clear_portfolio", cleared |-> Len(_positions)]
  /\ UNCHANGED <<avars, qvars, bvars>>

\* ---- price targets (services/portfolio_engine.py) --------------------------------------

\* n / d (in ten-thousandths of a dollar) rounded to cents: round(x, 2)
RoundCents(n, d) == Round(n, d * 100) * 100

\* the larger of two numbers
Max(a, b) == IF a >= b THEN a ELSE b

\* compute_price_targets; prices in ten-thousandths of a dollar, analyst_target 0 for None
\*   1 + 0.15 + beta * 0.05 = (2300 + beta) / 2000, 1 - 0.08 - beta * 0.02 = (4600 - beta) / 5000,
\*   1 + 0.30 + beta * 0.10 = (1300 + beta) / 1000, with beta in hundredths
compute_price_targets(current_price, avg_cost, beta, analyst_target) ==
  LET b          == Max(10, beta)
      stop_loss  == RoundCents(current_price * (4600 - b), 5000)
      \* max(stop_loss, breakeven * 0.85), then round(., 2)
      floored    == IF stop_loss * 100 >= avg_cost * 85 THEN stop_loss
                    ELSE RoundCents(avg_cost * 85, 100)
  IN  [ sell_target   |-> IF analyst_target # 0 /\ analyst_target > current_price
                          THEN analyst_target
                          ELSE RoundCents(current_price * (2300 + b), 2000),
        stop_loss     |-> floored,
        trailing_stop |-> RoundCents(Max(avg_cost * 97, current_price * 88), 100),
        bull_target   |-> RoundCents(current_price * (1300 + b), 1000),
        conservative_target |-> RoundCents(current_price * 107, 100) ]

\* compute_price_targets is called
ComputePriceTargets ==
  /\ args.fn = "compute_price_targets" /\ ret = NoCall
  /\ ret' = [fn |-> "compute_price_targets",
             targets |-> compute_price_targets(args.current_price, args.avg_cost,
                                               args.beta, args.analyst_target)]
  /\ UNCHANGED <<avars, qvars, bvars, args, _positions>>

\* ---- portfolio summary and VaR (services/portfolio_engine.py) --------------------------

\* the fields of an EnrichedPosition the two functions read: market_value, cost_basis and
\* day_gain_loss in dollars, beta in hundredths
EnrichedPositions ==
  { [market_value |-> m, cost_basis |-> c, day_gain_loss |-> 0 - 1, beta |-> b] :
      m \in {0, 10}, c \in {0, 8}, b \in {50, 120} }

\* the position lists studied: the empty one, and those of one and two positions
PositionLists ==
  {<<>>} \cup {<<p>> : p \in EnrichedPositions}
         \cup {<<p, q>> : p \in EnrichedPositions, q \in EnrichedPositions}

\* sum(f(p) for p in positions)
RECURSIVE Sum(_, _)
Sum(f, positions) ==
  IF positions = <<>> THEN 0 ELSE f[Head(positions)] + Sum(f, Tail(positions))

\* compute_portfolio_summary; amounts returned in cents, percentages in hundredths of a
\* percent, portfolio_beta in thousandths, sharpe_ratio in hundredths (None when not set)
\*   total_value * 0.012 * portfolio_beta * 1.645 = sum(beta * market_value) * 987 / 50000 cents
compute_portfolio_summary(positions, sharpe) ==
  IF positions = <<>>
  THEN [ total_value |-> 0, cost_basis |-> 0, total_gain_loss |-> 0, total_gain_loss_pct |-> 0,
         day_gain_loss |-> 0, portfolio_beta |-> 0, positions_count |-> 0, var_1d_95 |-> 0,
         expected_shortfall |-> 0, sharpe_ratio |-> None ]
  ELSE
    LET total_value == Sum([p \in EnrichedPositions |-> p.market_value], positions)
        cost_basis  == Sum([p \in EnrichedPositions |-> p.cost_basis], positions)
        gain_loss   == total_value - cost_basis
        day_gain    == Sum([p \in EnrichedPositions |-> p.day_gain_loss], positions)
        weighted    == Sum([p \in EnrichedPositions |-> p.beta * p.market_value], positions)
        var_1d_95   == IF total_value # 0 THEN Round(weighted * 987, 50000) ELSE 0
    IN  [ total_value |-> total_value * 100, cost_basis |-> cost_basis * 100,
          total_gain_loss |-> gain_loss * 100,
          total_gain_loss_pct |-> IF cost_basis # 0 THEN Round(gain_loss * 10000, cost_basis)
                                  ELSE 0,
          day_gain_loss |-> day_gain * 100,
          portfolio_beta |-> IF total_value # 0 THEN Round(weighted * 10, total_value)
                             ELSE 1000,
          positions_count |-> Len(positions),
          var_1d_95 |-> var_1d_95,
          expected_shortfall |-> Round(var_1d_95 * 5, 4),
          sharpe_ratio |-> sharpe ]

\* VaRResult(**kwargs): pydantic raises ValidationError when a required field is missing.
\* models/schemas.py defines VaRResult twice, and the second definition (lines 508-514),
\* whose required fields these are, is the one bound to the name
VaRResult(kwargs) ==
  IF {"confidence_level", "time_horizon", "var_amount", "distribution_used", "percentile"}
       \subseteq DOMAIN kwargs
  THEN [raised |-> FALSE, exception |-> "", value |-> kwargs]
  ELSE [raised |-> TRUE, exception |-> "ValidationError", value |-> <<>>]

\* compute_var; amounts in cents
\*   total_value * 0.0126 * portfolio_beta * 1.645 = sum(beta * market_value) * 20727 / 1000000,
\*   with 2.326: * 73269 / 2500000; sqrt(10) is taken as 3.1623; the two random fields
\*   (tail_loss_probability, intraday_history) are not given a value
compute_var(positions) ==
  LET total_value == Sum([p \in EnrichedPositions |-> p.market_value], positions)
      weighted    == Sum([p \in EnrichedPositions |-> p.beta * p.market_value], positions)
      var_1d_95   == IF total_value # 0 THEN Round(weighted * 20727, 1000000) ELSE 0
      var_1d_99   == IF total_value # 0 THEN Round(weighted * 73269, 2500000) ELSE 0
      limit_var   == total_value * 5
  IN  VaRResult(
        [ var_1d_95 |-> var_1d_95, var_1d_99 |-> var_1d_99,
          var_10d_95 |-> Round(var_1d_95 * 31623, 10000),
          var_10d_99 |-> Round(var_1d_99 * 31623, 10000),
          expected_shortfall_95 |-> Round(var_1d_95 * 5, 4),
          expected_shortfall_99 |-> Round(var_1d_99 * 59, 50),
          tail_loss_probability |-> "random",
          breach_probability |-> IF limit_var # 0
                                 THEN IF var_1d_95 * 100 >= 99 * limit_var THEN 9900
                                      ELSE Round(var_1d_95 * 10000, limit_var)
                                 ELSE 5000,
          limit_var |-> limit_var,
          intraday_history |-> "random" ])

\* compute_portfolio_summary is called; sharpe is what random.uniform(0.8, 2.1) gives,
\* in hundredths
ComputePortfolioSummary(sharpe) ==
  /\ args.fn = "compute_portfolio_summary" /\ ret = NoCall
  /\ ret' = [fn |-> "compute_portfolio_summary", raised |-> FALSE,
             value |-> compute_portfolio_summary(args.positions, sharpe)]
  /\ UNCHANGED <<avars, qvars, bvars, args, _positions>>

\* compute_var is called
ComputeVar ==
  /\ args.fn = "compute_var" /\ ret = NoCall
  /\ ret' = [fn |-> "compute_var"] @@ compute_var(args.positions)
  /\ UNCHANGED <<avars, qvars, bvars, args, _positions>>

\* ---- multi-level VaR (services/var_calculator.py) --------------------------------------

\* VaRCalculator.calculate_var_quantile, in thousandths, for a confidence level in
\* percent (90, 95, 99: the defaults of VaRConfig):
\*   scipy.stats.norm.ppf(1 - c), scipy.stats.t.ppf(1 - c, 5),
\*   scipy.stats.expon.ppf(1 - c) = -ln(c)
calculate_var_quantile(confidence_level, distribution) ==
  LET c    == confidence_level
      norm == CASE c = 90 -> 0 - 1282 [] c = 95 -> 0 - 1645 [] c = 99 -> 0 - 2326
  IN  CASE distribution = "normal"      -> norm
        [] distribution = "student_t"   ->
             (CASE c = 90 -> 0 - 1476 [] c = 95 -> 0 - 2015 [] c = 99 -> 0 - 3365)
        [] distribution = "lognormal"   -> Round(norm * 11, 10)
        [] distribution = "exponential" ->
             (CASE c = 90 -> 105 [] c = 95 -> 51 [] c = 99 -> 10)
        [] OTHER                        -> norm

\* compute_multi_var lines 306-337: the VaRResult of one confidence level and horizon.
\*   weighted = sum(beta * market_value) = total_value * portfolio_beta (dollars, hundredths);
\*   total_value * daily_vol * quantile = weighted * 126 * quantile / 10^7 cents;
\*   sqrt(10) is taken as 3.162, and the amount is cut to a thousandth of a cent before
\*   it is scaled;
\*   es: calculate_expected_shortfall as a multiple of var_amount, in thousandths
\*   (normal: norm.pdf(z) / alpha / abs(z) at z = norm.ppf(alpha))
VarEntry(weighted, confidence_level, time_horizon, distribution) ==
  LET quantile == calculate_var_quantile(confidence_level, distribution)
      product  == weighted * 126 * quantile
      var_1d   == Round(IF product < 0 THEN 0 - product ELSE product, 10000)
      scaled   == IF time_horizon = 1 THEN var_1d * 1000 ELSE var_1d * 3162
      es       == CASE distribution = "normal" ->
                         (CASE confidence_level = 90 -> 1369 [] confidence_level = 95 -> 1254
                            [] confidence_level = 99 -> 1146)
                    [] distribution = "student_t" -> 1200
                    [] OTHER -> 1250
  IN  [ confidence_level |-> confidence_level, time_horizon |-> time_horizon,
        var_amount |-> Round(scaled, 1000000),
        es_amount  |-> Round((scaled \div 1000) * es, 1000000),
        distribution_used |-> distribution,
        percentile |-> 100 - confidence_level ]

\* the nested loops of compute_multi_var (lines 304-338): horizons innermost
RECURSIVE VarResults(_, _, _, _, _, _)
VarResults(weighted, levels, horizons, distribution, i, j) ==
  IF i > Len(levels) THEN <<>>
  ELSE IF j > Len(horizons) THEN VarResults(weighted, levels, horizons, distribution, i + 1, 1)
  ELSE <<VarEntry(weighted, levels[i], horizons[j], distribution)>>
         \o VarResults(weighted, levels, horizons, distribution, i, j + 1)

\* VaRCalculator.compute_multi_var without historical returns (the distribution is the
\* configured one)
compute_multi_var(positions, var_config) ==
  LET total_value == Sum([p \in EnrichedPositions |-> p.market_value], positions)
      weighted    == Sum([p \in EnrichedPositions |-> p.beta * p.market_value], positions)
  IN  IF total_value = 0
      THEN [portfolio_id |-> "empty", results |-> <<>>]
      ELSE [portfolio_id |-> "default",
            results |-> VarResults(weighted, var_config.confidence_levels, var_config.time_horizons,
                                   var_config.distribution, 1, 1)]

\* ---- factor sensitivity (services/sensitivity_analyzer.py) --------------------------------

\* SensitivityAnalyzer._perturb_positions on positions of which sector, beta (hundredths)
\* and market_value (dollars) are kept; perturbation in percent.  The copies returned
\* carry beta in hundred-thousandths and market_value in cents:
\*   beta * (1 + perturbation * 1.5) = beta * (1000 + 15 * perturbation) / 1000
RECURSIVE _perturb_positions(_, _, _)
_perturb_positions(positions, factor_name, perturbation) ==
  IF positions = <<>> THEN <<>>
  ELSE
    LET pos  == Head(positions)
        same == [pos EXCEPT !.beta = @ * 1000, !.market_value = @ * 100]
        out  ==
          CASE factor_name = "equity_vol"    ->
                 [same EXCEPT !.beta = pos.beta * (1000 + 10 * perturbation)]
            [] factor_name = "beta"          ->
                 [same EXCEPT !.beta = pos.beta * (1000 + 10 * perturbation)]
            [] factor_name = "correlation"   ->
                 [same EXCEPT !.beta = pos.beta * (1000 + 5 * perturbation)]
            [] factor_name = "concentration" ->
                 [same EXCEPT !.market_value = pos.market_value * (100 + perturbation)]
            [] factor_name = "rates"         ->
                 IF pos.sector \in {"Financial Services", "Real Estate"}
                 THEN [same EXCEPT !.beta = pos.beta * (1000 + 15 * perturbation)]
                 ELSE [same EXCEPT !.beta = pos.beta * (1000 + 5 * perturbation)]
            [] OTHER                         -> same
    IN  <<out>> \o _perturb_positions(Tail(positions), factor_name, perturbation)

\* _perturb_positions is called
PerturbPositions ==
  /\ args.fn = "_perturb_positions" /\ ret = NoCall
  /\ ret' = [fn |-> "_perturb_positions",
             value |-> _perturb_positions(args.positions, args.factor_name, args.perturbation)]
  /\ UNCHANGED <<avars, qvars, bvars, args, _positions>>

\* ---- Monte Carlo (services/portfolio_engine.py) --------------------------------------------

\* range(start, stop, step) of Python for a positive step, as a sequence
RECURSIVE range(_, _, _)
range(start, stop, step) ==
  IF start >= stop THEN <<>> ELSE <<start>> \o range(start + step, stop, step)

\* the prefix sizes of the convergence series of run_monte_carlo, lines 317-320:
\*   for step in range(100, n_paths + 1, max(1, n_paths // 20))
convergence_paths(n_paths) ==
  LET step == IF n_paths \div 20 > 1 THEN n_paths \div 20 ELSE 1
  IN  range(100, n_paths + 1, step)

\* run_monte_carlo is called with the path count the route get_monte_carlo accepted.
\* The simulated P&L figures are random draws; of the result the path count and the
\* prefix sizes of the convergence series are kept.
RunMonteCarlo ==
  /\ args.fn = "run_monte_carlo" /\ ret = NoCall
  /\ ret' = [fn |-> "run_monte_carlo", paths |-> args.n_paths,
             convergence |-> convergence_paths(args.n_paths)]
  /\ UNCHANGED <<avars, qvars, bvars, args, _positions>>

\* the path counts studied, all in the range get_monte_carlo accepts
\* (Query(10_000, ge=1_000, le=100_000)): the smallest, the default, the largest and
\* those around the changes of the step
PathCounts == (1000 .. 1100) \cup {1899, 1900, 1999, 2000, 2019, 10000, 99999, 100000}

\* the calls studied:
\*   compute_price_targets at current prices of 5, 10 and 20 dollars, average costs with
\*     two and with four decimal places, betas from 0.05 to 50, no and some analyst target;
\*   compute_portfolio_summary and compute_var on each position list;
\*   compute_multi_var on each position list under each distribution family, with the
\*     default levels and horizons and with the levels in another order;
\*   _perturb_positions on two positions, their sectors among those of COMPANY_META
\*     (stock_data.py lines 28-51, which enrich_position assigns), "Unknown" and the two
\*     names the analyzer tests for, under each factor, 20% down and up;
\*   run_monte_carlo with each path count of PathCounts
Calls ==
  { [fn |-> "compute_price_targets", current_price |-> c * CostUnit, avg_cost |-> a,
     beta |-> b, analyst_target |-> t * CostUnit] :
       c \in {5, 10, 20}, a \in {40000, 100000, 100040, 100500},
       b \in {5, 100, 300, 5000}, t \in {0, 8, 25} }
  \cup
  { [fn |-> f, positions |-> ps] :
       f \in {"compute_portfolio_summary", "compute_var"}, ps \in PositionLists }
  \cup
  { [fn |-> "compute_multi_var", positions |-> ps,
     config |-> [confidence_levels |-> ls, time_horizons |-> <<1, 10>>, distribution |-> d]] :
       ps \in PositionLists, ls \in {<<90, 95, 99>>, <<99, 90>>},
       d \in {"normal", "student_t", "lognormal", "exponential"} }
  \cup
  { [fn |-> "_perturb_positions", factor_name |-> f, perturbation |-> x,
     positions |-> << [sector |-> s1, beta |-> 110, market_value |-> 10],
                      [sector |-> s2, beta |-> b2, market_value |-> 10] >>] :
       f \in {"equity_vol", "beta", "correlation", "concentration", "rates"},
       x \in {-20, 20}, b2 \in {90, 110},
       s1 \in {"Financials", "Financial Services", "Real Estate"},
       s2 \in {"Technology", "Consumer", "Financials", "Energy", "Healthcare", "ETF",
               "Unknown"} }
  \cup
  { [fn |-> "run_monte_carlo", n_paths |-> n] : n \in PathCounts }

\* compute_multi_var is called
ComputeMultiVar ==
  /\ args.fn = "compute_multi_var" /\ ret = NoCall
  /\ ret' = [fn |-> "compute_multi_var",
             value |-> compute_multi_var(args.positions, args.config)]
  /\ UNCHANGED <<avars, qvars, bvars, args, _positions>>

\* ---- specification ------------------------------------------------------------------

\* the alert types POST /api/alerts/test and DELETE /api/alerts/cooldown are called with
TestTypes == {"SELL_TARGET_HIT"}

\* no call under study has been made, the portfolio is empty
InitPure ==
  /\ args = NoCall
  /\ ret = NoCall
  /\ _positions = <<>>

\* AlertAgent.__init__, but for the configuration and the registry; the other services
\* as constructed
InitRest ==
  /\ _configs = [p \in {} |-> 0]
  /\ _breach_history = [p \in {} |-> <<>>]
  /\ _last_check = [p \in {} |-> 0]
  /\ bclock = 0
  /\ bev = NoBreachEvents
  /\ in_app_alerts = <<>>
  /\ email_logs = <<>>
  /\ cooldowns = [k \in Keys |-> None]
  /\ alerts_today = 0
  /\ running = FALSE
  /\ status = "idle"
  /\ now = 0
  /\ sendgrid_configured \in BOOLEAN
  /\ smtp_configured \in BOOLEAN
  /\ loop = IdleLoop
  /\ test = IdleTest
  /\ lastFire = [k \in Keys |-> None]
  /\ stopSignalled = FALSE
  /\ ev = NoEvents

\* AlertAgent.__init__
InitAgent ==
  /\ config = AlertConfig
  /\ holdings = <<>>
  /\ InitRest

\* the agent once the user has set an address, turned notifications on and opened the
\* portfolio, before any alert has fired
InitConfigured ==
  /\ config = [AlertConfig EXCEPT !.enabled = TRUE, !.user_email = "u@x"]
  /\ holdings \in HoldingLists
  /\ InitRest

\* the quote cascade when the process has counted c requests on the first date
InitQuote(c) ==
  /\ av_configured \in BOOLEAN
  /\ td_configured \in BOOLEAN
  /\ c > 0 => av_configured
  /\ today = 1
  /\ rate_counter = [d \in Dates |-> IF d = 1 THEN c ELSE 0]
  /\ issued = [d \in Dates |-> IF d = 1 THEN c ELSE 0]
  /\ sim_prices = {}
  /\ qtasks = <<>>
  /\ qbatch = NoBatch

\* every service as constructed, but for the call under study
InitServices == InitAgent /\ InitQuote(0)

Init == InitServices /\ InitPure

\* the cycle, as run by the task in both specifications
Cycle(cap) ==
  \/ SleepDone
  \/ \E q \in [DOMAIN loop.quotes -> Prices] : FetchDone(q, cap)
  \/ FetchRaise
  \/ \E ok \in BOOLEAN : LoopEmailDone(ok, cap)
  \/ LoopEmailRaise

\* Alerting: the task started once by lifespan, the cycle, the clock and the alert requests,
\* in a deployment without SMTP credentials
Next ==
  \/ loop.pc = "idle" /\ RunMonitoringLoop
  \/ Cycle(MaxAlerts)
  \/ \E u \in Updates : UpdateConfig(u)
  \/ \E hs \in HoldingLists : RegisterHoldings(hs)
  \/ \E s \in Symbols, ty \in TestTypes : ResetCooldown(s, ty)
  \/ ClearAllAlerts
  \/ \E s \in Symbols, ty \in TestTypes : SendTestAlert(s, ty, MaxAlerts)
  \/ \E ok \in BOOLEAN : TestEmailDone(ok)
  \/ Tick

InitAlerting == Init /\ ~smtp_configured /\ ~av_configured /\ ~td_configured

Spec == InitAlerting /\ [][Next]_vars

\* the lists registered while the task cycles: the portfolio is enriched with one
\* position, then with another in its place
LifeHoldingLists == HoldingLists \cup { <<Holding("MSFT", 2)>> }

\* Lifecycle: the owner starts, stops, restarts and cancels the task while it cycles
NextLife ==
  \/ RunMonitoringLoop
  \/ Cycle(LifeAlerts)
  \/ Stop
  \/ LifespanShutdown
  \/ \E u \in Updates : UpdateConfig(u)
  \/ \E hs \in LifeHoldingLists : RegisterHoldings(hs)

InitLife == Init /\ ~av_configured /\ ~td_configured

SpecLife == InitLife /\ [][NextLife]_vars

\* Quotes: batches of concurrent resolutions over the providers, across midnight
NextQuote ==
  \/ \E symbols \in QuoteLists : GetQuotesBatch(symbols)
  \/ \E i \in DOMAIN qtasks : GetQuoteStart(i)
  \/ \E i \in DOMAIN qtasks, resp \in AvResponses : AvDone(i, resp)
  \/ \E i \in DOMAIN qtasks, hit \in BOOLEAN : YahooDone(i, hit)
  \/ \E i \in DOMAIN qtasks, hit \in BOOLEAN : TwelveDataDone(i, hit)
  \/ GatherDone
  \/ NextDate

\* a deployment without an email provider and without a quote provider, as started
InitOffline ==
  /\ Init /\ ~sendgrid_configured /\ ~smtp_configured /\ ~av_configured /\ ~td_configured

\* Acknowledging: test alerts are fired, acknowledged by id and cleared

NextAck ==
  \/ \E hs \in HoldingLists : RegisterHoldings(hs)
  \/ \E s \in Symbols, ty \in TestTypes : SendTestAlert(s, ty, AckAlerts)
  \/ \E id \in 1..(AckAlerts + 1) : AcknowledgeAlert(id)
  \/ ClearAllAlerts

SpecAck == InitOffline /\ [][NextAck]_vars

\* Breaches: portfolios are configured, checked, acknowledged and cleared
NextBreach ==
  \/ \E p \in Portfolios, ths \in ThresholdLists : ConfigureMonitoring(p, ths)
  \/ \E p \in Portfolios : UpdateThreshold(p, "drawdown", 10, TRUE)
  \/ \E p \in Portfolios, v \in {100, 110, 151}, g \in {-5, 5} :
        CheckBreaches(p, [var_1d_95 |-> v, total_gain_loss_pct |-> g, total_value |-> 1000])
  \/ \E p \in Portfolios, m \in {"var_95", "drawdown", "es_99"}, t \in 1..MaxChecks :
        AcknowledgeBreach(p, <<p, m, t>>)
  \/ \E p \in Portfolios : ClearHistory(p)

SpecBreach == InitOffline /\ [][NextBreach]_vars

\* Email: alerts are dispatched one after another under each provider configuration
InitEmail == Init /\ ~av_configured /\ ~td_configured

NextEmail ==
  \/ \E ty \in AlertTypes \cup {"DAILY_SUMMARY"}, s \in Symbols : SendAlertEmail(ty, s)
  \/ \E o \in {"202", "400", "exception"} : SendgridDone(o)
  \/ \E o \in {"sent", "exception"} : SmtpDone(o)

SpecEmail == InitEmail /\ [][NextEmail]_vars

\* the lots added: symbol, shares, average cost in dollars; and a lot of ten shares
\* bought at 0.00004 dollars each
Lots ==
  { [symbol |-> lot[1], shares |-> lot[2], avg_cost |-> lot[3] * CostUnit * FineUnit] :
      lot \in {<<"AAPL", 10, 100>>, <<"AAPL", 10, 80>>, <<"AAPL", 1, 1>>,
               <<"AAPL", 2, 2>>, <<"MSFT", 10, 100>>} }
  \cup { [symbol |-> "MSFT", shares |-> 10, avg_cost |-> 4] }

\* the update requests: no field given, and both (they are positive:
\* UpdatePositionRequest, gt=0)
UpdateRequests ==
  { [shares |-> None, avg_cost |-> None],
    [shares |-> 10, avg_cost |-> 100 * CostUnit * FineUnit] }

\* Positions: lots are added to the portfolio, positions are updated and deleted by id,
\* known or not, and the portfolio is cleared
NextPositions ==
  \/ \E req \in Lots : AddPosition(req)
  \/ \E id \in 1..3, req \in UpdateRequests : UpdatePosition(id, req)
  \/ \E id \in 1..3 : DeletePosition(id)
  \/ ClearPortfolio

SpecPositions == InitOffline /\ [][NextPositions]_vars

\* Calls: each of the calls studied is made, in a deployment without providers
InitCalls ==
  /\ InitServices
  /\ ~sendgrid_configured /\ ~smtp_configured /\ ~av_configured /\ ~td_configured
  /\ args \in Calls
  /\ ret = NoCall
  /\ _positions = <<>>

NextCalls ==
  \/ ComputePriceTargets
  \/ \E sharpe \in {80, 210} : ComputePortfolioSummary(sharpe)
  \/ ComputeVar
  \/ ComputeMultiVar
  \/ PerturbPositions
  \/ RunMonteCarlo

SpecCalls == InitCalls /\ [][NextCalls]_vars

InitRing ==
  /\ InitConfigured /\ ~sendgrid_configured /\ ~smtp_configured
  /\ InitQuote(0) /\ ~av_configured /\ ~td_configured
  /\ InitPure

\* Buffers: test alerts fired one after another until both buffers have overflowed, in a
\* deployment without an email provider (send_alert_email returns without suspending)
NextRing ==
  \/ \E hs \in HoldingLists : RegisterHoldings(hs)
  \/ \E s \in Symbols, ty \in TestTypes : SendTestAlert(s, ty, RingFirings)

SpecRing == InitRing /\ [][NextRing]_vars

\* a deployment with a SendGrid key, the user having set an address, turned notifications
\* on and opened the portfolio
InitFire ==
  /\ InitConfigured /\ sendgrid_configured /\ ~smtp_configured
  /\ InitQuote(0) /\ ~av_configured /\ ~td_configured
  /\ InitPure

\* Firing: the cycle and test alerts fire while the configuration is changed and the
\* alerts are cleared
NextFire ==
  \/ loop.pc = "idle" /\ RunMonitoringLoop
  \/ Cycle(FireAlerts)
  \/ \E u \in { [k \in {"enabled"} |-> FALSE], [k \in {"enabled"} |-> TRUE],
                 [k \in {"alert_on_sell_target"} |-> FALSE], [k \in {"user_email"} |-> ""] } :
        UpdateConfig(u)
  \/ ClearAllAlerts
  \/ \E s \in Symbols, ty \in TestTypes : SendTestAlert(s, ty, FireAlerts)
  \/ \E ok \in BOOLEAN : TestEmailDone(ok)

SpecFire == InitFire /\ [][NextFire]_vars

\* a deployment without an email provider whose quote cascade has counted some requests
InitQuotes ==
  /\ InitAgent /\ ~sendgrid_configured /\ ~smtp_configured /\ InitPure
  /\ \E c \in StartCounts : InitQuote(c)

SpecQuote == InitQuotes /\ [][NextQuote]_vars

\* ---- properties -----------------------------------------------------------------------

\* C1: a key that fired (and was not reset or test-fired since) does not fire again
\* before the cooldown has elapsed: an attempt inside the window creates no alert and
\* dispatches no email, an attempt after the window creates one more alert, and each
\* created alert is counted once and is dispatched at most one email (exactly one when
\* notifications are enabled and an address is set).
C1_CooldownDedup ==
  [][ LET created == {a \in ev'.attempts : a.created}
      IN  /\ \A a \in ev'.attempts :
                /\ (a.prev # None /\ a.at - a.prev < ALERT_COOLDOWN_HOURS)
                      => (~a.created /\ ~a.emailed)
                /\ (a.prev # None /\ a.at - a.prev > ALERT_COOLDOWN_HOURS)
                      => a.created
                /\ a.emailed <=> (a.created /\ config.enabled /\ config.user_email # "")
          /\ alerts_today' = alerts_today + Cardinality(created)
          /\ ev'.attempts # {} =>
                Len(in_app_alerts') = Len(in_app_alerts) + Cardinality(created)
    ]_vars

\* a cycle attempted a key inside its window and was suppressed
C1_Witness ==
  \E a \in ev.attempts :
     a.via = "loop" /\ a.prev # None /\ a.at - a.prev < ALERT_COOLDOWN_HOURS /\ ~a.created

\* C2: status only moves idle->running, running<->paused, running/paused->stopped,
\* stopped is entered only by stop(), and stopped is never left.
C2_StatusStateMachine ==
  [][ LET seq == <<status>> \o ev'.assigned
          allowed == { <<"idle", "running">>, <<"running", "paused">>,
                       <<"paused", "running">>, <<"running", "stopped">>,
                       <<"paused", "stopped">> }
      IN  /\ \A i \in 1..(Len(seq) - 1) :
                seq[i] # seq[i + 1] => <<seq[i], seq[i + 1]>> \in allowed
          /\ (status' = "stopped" /\ status # "stopped") => ev'.assigned = <<"stopped">>
    ]_vars

\* C3 as claimed: while the task is started and stop() was not called, status is running
\* whenever alerting is enabled and a holding is registered, and paused whenever alerting
\* is enabled and none is.
C3_StatusFollowsRegistry ==
  (loop.pc \in {"fetch", "email", "sleep"} /\ ~stopSignalled /\ config.enabled)
     => status = (IF holdings # <<>> THEN "running" ELSE "paused")

\* C3 as the code has it: each pass of the loop sets status to running when alerting is
\* enabled and a holding is registered, and to paused otherwise, and goes on to the
\* cycle or to the sleep; the loop does not end in either case.
C3_StatusSetAtEachPass ==
  (ev.assigned # <<>> /\ ev.assigned[Len(ev.assigned)] # "stopped")
     => IF config.enabled /\ holdings # <<>>
        THEN status = "running" /\ loop.pc = "fetch"
        ELSE status = "paused" /\ loop.pc = "sleep"

\* a pass after a sleep finds alerting enabled and a holding registered
C3_Witness ==
  ev.assigned = <<"running">> /\ status = "running" /\ holdings # <<>>

\* C4: an exception raised inside a cycle does not end the task: it is caught, nothing
\* of the lifecycle changes, and the task is at its inter-cycle sleep, from which the
\* next pass is due.
C4_ExceptionKeepsLoop ==
  [][ ev'.raised => (loop'.pc = "sleep" /\ running' = running /\ status' = status) ]_vars

\* an exception was raised inside a cycle that had fired an alert
C4_Witness ==
  ev.raised /\ in_app_alerts # <<>> /\ loop.pc = "sleep"

\* C5 as claimed: once stop() has been called no new cycle begins.
C5_NoCycleAfterStop ==
  [][ (stopSignalled /\ loop.pc # "fetch") => loop'.pc # "fetch" ]_vars

\* C6: get_quotes_batch returns only when every get_quote of the batch has ended, with
\* exactly one entry per requested symbol: the simulated quote for a symbol whose
\* get_quote raised, and for every other symbol the quote its own get_quote returned.
C6_BatchQuote ==
  qbatch.pc = "done" =>
    /\ DOMAIN qbatch.output = {qbatch.symbols[i] : i \in DOMAIN qbatch.symbols}
    /\ DOMAIN qtasks = DOMAIN qbatch.symbols
    /\ \A i \in DOMAIN qtasks :
          /\ qtasks[i].pc = "done"
          /\ qtasks[i].symbol = qbatch.symbols[i]
          /\ qbatch.output[qtasks[i].symbol] \in
                {"alpha_vantage", "yahoo_finance", "twelve_data", "simulated"}
          /\ qbatch.output[qtasks[i].symbol] =
                IF qtasks[i].result = "raise" THEN "simulated" ELSE qtasks[i].result

\* a batch of two returned: one get_quote raised, the other returned Yahoo's quote
C6_Witness ==
  /\ qbatch.pc = "done"
  /\ qbatch.symbols = <<"AAPL", "ZZZZINVALID">>
  /\ qtasks[1].result = "raise" /\ qbatch.output["AAPL"] = "simulated"
  /\ qtasks[2].result = "yahoo_finance" /\ qbatch.output["ZZZZINVALID"] = "yahoo_finance"

\* C7 as claimed: get_quote never ends in an exception, the quote it returns comes from a
\* provider only if every provider before it in the order was skipped or missed, and it
\* is the simulated quote only if all three providers were.
C7_QuotePriority ==
  \A i \in DOMAIN qtasks :
    qtasks[i].pc = "done" =>
      /\ qtasks[i].result # "raise"
      /\ \E k \in DOMAIN Providers :
            /\ qtasks[i].result = Providers[k]
            /\ \A j \in 1..(k - 1) : Providers[j] \in qtasks[i].missed

\* C8 as claimed: on no date are more requests sent to Alpha Vantage than the daily
\* limit, however the resolutions interleave.
C8_DailyQuota ==
  \A d \in Dates : issued[d] <= ALPHA_VANTAGE_DAILY_LIMIT

\* C9: the alert buffer never holds more than 200 entries and the email log never more
\* than 500, both are ordered newest first, and a firing into a full buffer puts the new
\* entry at the head, drops the last one and keeps the others in their order.
C9_RingBuffers ==
  [][ /\ Len(in_app_alerts') <= IN_APP_CAP
      /\ Len(email_logs') <= EMAIL_LOG_CAP
      /\ \A i \in 1..(Len(in_app_alerts') - 1) : in_app_alerts'[i].id > in_app_alerts'[i + 1].id
      /\ \A i \in 1..(Len(email_logs') - 1) : email_logs'[i].id > email_logs'[i + 1].id
      /\ (alerts_today' = alerts_today + 1 /\ Len(in_app_alerts) = IN_APP_CAP) =>
            /\ in_app_alerts'[1].id = alerts_today'
            /\ Tail(in_app_alerts') = SubSeq(in_app_alerts, 1, IN_APP_CAP - 1)
      /\ (email_logs' # email_logs /\ Len(email_logs) = EMAIL_LOG_CAP) =>
            /\ email_logs'[1].id = alerts_today'
            /\ Tail(email_logs') = SubSeq(email_logs, 1, EMAIL_LOG_CAP - 1)
    ]_vars

\* both buffers are full and have each evicted an entry
C9_Witness ==
  /\ Len(in_app_alerts) = IN_APP_CAP /\ in_app_alerts[IN_APP_CAP].id > 1
  /\ Len(email_logs) = EMAIL_LOG_CAP
  /\ email_logs[EMAIL_LOG_CAP].id > email_logs[1].id - EMAIL_LOG_CAP

\* C10: send_test_alert on a registered symbol fires once whatever the key's cooldown
\* was (one new alert of that symbol and type at the head, the counter one up, the
\* key's cooldown set to now); on an unregistered symbol it returns None and changes
\* nothing.
C10_SendTestAlert ==
  [][ \A sym \in Symbols, ty \in TestTypes :
        \* a call of send_test_alert(sym, ty) runs its first segment in this step
        ( /\ test.pc = "none"
          /\ \/ test'.pc = "email" /\ test'.symbol = sym /\ test'.alert_type = ty
             \/ /\ ev'.returned.kind # "none"
                /\ ev'.returned.symbol = sym /\ ev'.returned.alert_type = ty ) =>
          IF FindHolding(holdings, sym) # <<>>
          THEN /\ alerts_today' = alerts_today + 1
               /\ in_app_alerts' = <<InAppAlert(alerts_today + 1, ty, sym)>> \o in_app_alerts
               /\ cooldowns' = [cooldowns EXCEPT ![<<sym, ty>>] = now]
          ELSE /\ ev'.returned.kind = "None"
               /\ UNCHANGED <<config, holdings, in_app_alerts, email_logs, cooldowns,
                              alerts_today, running, status, loop>>
    ]_vars

\* a test alert fired although an alert of the same key had fired inside the window
C10_Witness ==
  /\ ev.returned.kind = "alert"
  /\ \E a \in ev.attempts : a.via = "test" /\ a.created
  /\ now < ALERT_COOLDOWN_HOURS
  /\ Len(in_app_alerts) >= 2
  /\ in_app_alerts[1].symbol = in_app_alerts[2].symbol
  /\ in_app_alerts[1].alert_type = in_app_alerts[2].alert_type

\* C11: reset_cooldown(symbol, type) removes the cooldown entry of that key and of no
\* other (nothing changes when the key has none) and changes nothing else of the agent;
\* a monitoring cycle that then attempts the key, its threshold crossed, finds no entry
\* and fires, whatever time has passed since the key's previous firing.
C11_ResetCooldown ==
  [][ /\ ev'.reset # <<>> =>
            /\ cooldowns'[ev'.reset] = None
            /\ \A k \in Keys \ {ev'.reset} : cooldowns'[k] = cooldowns[k]
            /\ cooldowns[ev'.reset] = None => cooldowns' = cooldowns
            /\ UNCHANGED <<config, holdings, in_app_alerts, email_logs, alerts_today,
                           running, status, loop, test>>
      /\ \A a \in ev'.attempts :
            (a.via = "loop" /\ cooldowns[<<a.symbol, a.alert_type>>] = None) =>
               /\ a.created
               /\ cooldowns'[<<a.symbol, a.alert_type>>] = a.at
               /\ \E i \in DOMAIN in_app_alerts' :
                     /\ in_app_alerts'[i].symbol = a.symbol
                     /\ in_app_alerts'[i].alert_type = a.alert_type
                     /\ in_app_alerts'[i].id > alerts_today
    ]_vars

\* a cycle fired a key again inside the window of its previous firing, after a reset
C11_Witness ==
  /\ now < ALERT_COOLDOWN_HOURS
  /\ \E a \in ev.attempts :
        /\ a.via = "loop" /\ a.created /\ a.prev = None
        /\ \E i, j \in DOMAIN in_app_alerts :
              /\ i < j
              /\ in_app_alerts[i].symbol = a.symbol /\ in_app_alerts[j].symbol = a.symbol
              /\ in_app_alerts[i].alert_type = a.alert_type
              /\ in_app_alerts[j].alert_type = a.alert_type

\* C12: acknowledge_alert(id) on an alert of the buffer sets its acknowledged flag and
\* returns True, and a second call leaves the state as the first left it; on an id that
\* is not in the buffer it returns False and changes nothing; no other alert, no other
\* field of the alert and nothing else of the agent changes.
C12_Acknowledge ==
  [][ ev'.ack.called =>
        LET id == ev'.ack.id
        IN  /\ ev'.ack.found <=> (\E i \in DOMAIN in_app_alerts : in_app_alerts[i].id = id)
            /\ DOMAIN in_app_alerts' = DOMAIN in_app_alerts
            /\ \A i \in DOMAIN in_app_alerts :
                  in_app_alerts'[i] =
                     IF in_app_alerts[i].id = id
                     THEN [in_app_alerts[i] EXCEPT !.acknowledged = TRUE]
                     ELSE in_app_alerts[i]
            /\ ~ev'.ack.found => in_app_alerts' = in_app_alerts
            /\ ev'.ack.was => in_app_alerts' = in_app_alerts
            /\ acknowledge_alert(in_app_alerts', id) = in_app_alerts'
            /\ UNCHANGED <<config, holdings, email_logs, cooldowns, alerts_today,
                           running, status, loop, test>>
    ]_vars

\* an alert is acknowledged a second time while another alert is not acknowledged
C12_Witness ==
  /\ ev.ack.called /\ ev.ack.found /\ ev.ack.was
  /\ \E i \in DOMAIN in_app_alerts : in_app_alerts[i].id = ev.ack.id /\ in_app_alerts[i].acknowledged
  /\ \E i \in DOMAIN in_app_alerts : ~in_app_alerts[i].acknowledged

\* C13 as claimed: check_breaches on a configured portfolio returns, and appends to the
\* portfolio's history, exactly one event for each enabled threshold whose metric has a
\* value in the summary strictly greater than the threshold, and none for any other;
\* the severity is low / medium / high / critical as the excess percentage
\* (actual - threshold) / threshold * 100 is < 10 / < 25 / < 50 / otherwise.
C13_BreachCheck ==
  [][ (bev'.op = "check_breaches" /\ bev'.portfolio_id \in DOMAIN _configs) =>
        LET p   == bev'.portfolio_id
            ths == _configs[p].thresholds
            sm  == bev'.summary
            HasValue(m) == \/ m \in {"var_95", "total_value"}
                           \/ m = "drawdown" /\ sm.total_gain_loss_pct < 0
            Value(m) == CASE m = "var_95"      -> sm.var_1d_95
                          [] m = "total_value" -> sm.total_value
                          [] m = "drawdown"    -> 0 - sm.total_gain_loss_pct
            due == {i \in DOMAIN ths :
                      ths[i].enabled /\ HasValue(ths[i].metric)
                      /\ Value(ths[i].metric) > ths[i].threshold}
            Severity(a, t) == IF (a - t) * 100 < 10 * t THEN "low"
                              ELSE IF (a - t) * 100 < 25 * t THEN "medium"
                              ELSE IF (a - t) * 100 < 50 * t THEN "high"
                              ELSE "critical"
            out == bev'.breaches
        IN  /\ ~bev'.raised
            /\ Len(out) = Cardinality(due)
            /\ \A i \in due :
                  \E k \in DOMAIN out :
                    /\ out[k].metric = ths[i].metric
                    /\ out[k].portfolio_id = p
                    /\ out[k].threshold = ths[i].threshold
                    /\ out[k].actual_value = Value(ths[i].metric)
                    /\ ~out[k].acknowledged
                    /\ ths[i].threshold > 0 =>
                          out[k].severity = Severity(out[k].actual_value, out[k].threshold)
            /\ _breach_history'[p] = _breach_history[p] \o out
    ]_vars

\* C14 as claimed: a value of 110 against a threshold of 100 is classified low.
C14_BoundaryIsLow ==
  \A p \in DOMAIN _breach_history :
    \A i \in DOMAIN _breach_history[p] :
      LET b == _breach_history[p][i]
      IN  (b.actual_value = 110 /\ b.threshold = 100) => b.severity = "low"

\* C14 as the code has it: a value of 110 against a threshold of 100 (an excess of
\* exactly 10%) is classified medium; against a positive threshold an event is low
\* exactly when its excess is strictly below 10% of the threshold.
C14_BoundaryIsMedium ==
  \A p \in DOMAIN _breach_history :
    \A i \in DOMAIN _breach_history[p] :
      LET b == _breach_history[p][i]
      IN  /\ (b.actual_value = 110 /\ b.threshold = 100) => b.severity = "medium"
          /\ b.threshold > 0 =>
                (b.severity = "low" <=> (b.actual_value - b.threshold) * 100 < 10 * b.threshold)

\* a check recorded a value of 110 against a threshold of 100
C14_Witness ==
  \E p \in DOMAIN _breach_history :
    \E i \in DOMAIN _breach_history[p] :
      _breach_history[p][i].actual_value = 110 /\ _breach_history[p][i].threshold = 100

\* C15 as claimed: every event stored under a portfolio carries that portfolio's id, and
\* no operation removes or reorders an event of a history: a history only grows at its
\* end, and an existing event changes in its acknowledged flag at most.
C15_AppendOnly ==
  [][ \A p \in DOMAIN _breach_history :
        /\ p \in DOMAIN _breach_history'
        /\ Len(_breach_history'[p]) >= Len(_breach_history[p])
        /\ \A i \in DOMAIN _breach_history[p] :
              /\ [_breach_history'[p][i] EXCEPT !.acknowledged = FALSE]
                    = [_breach_history[p][i] EXCEPT !.acknowledged = FALSE]
              /\ _breach_history[p][i].acknowledged => _breach_history'[p][i].acknowledged
        /\ \A i \in DOMAIN _breach_history'[p] : _breach_history'[p][i].portfolio_id = p
    ]_vars

\* C15 as the code has it: the same, but for clear_history(p), which empties the history
\* of p and leaves every other history as it is; in particular configure_monitoring on
\* a portfolio that has a history keeps it, and acknowledge_breach changes one flag.
C15_AppendOnlyButClear ==
  [][ \A p \in DOMAIN _breach_history :
        /\ p \in DOMAIN _breach_history'
        /\ \A i \in DOMAIN _breach_history'[p] : _breach_history'[p][i].portfolio_id = p
        /\ IF bev'.op = "clear_history" /\ bev'.portfolio_id = p
           THEN _breach_history'[p] = <<>>
           ELSE /\ Len(_breach_history'[p]) >= Len(_breach_history[p])
                /\ \A i \in DOMAIN _breach_history[p] :
                      /\ [_breach_history'[p][i] EXCEPT !.acknowledged = FALSE]
                            = [_breach_history[p][i] EXCEPT !.acknowledged = FALSE]
                      /\ _breach_history[p][i].acknowledged
                            => _breach_history'[p][i].acknowledged
                /\ bev'.op # "check_breaches" =>
                      Len(_breach_history'[p]) = Len(_breach_history[p])
                /\ bev'.op = "acknowledge_breach" =>
                      Cardinality({i \in DOMAIN _breach_history[p] :
                                     _breach_history'[p][i] # _breach_history[p][i]}) <= 1
    ]_vars

\* a portfolio with a recorded breach has just been configured again
C15_Witness ==
  /\ bev.op = "configure_monitoring"
  /\ bev.portfolio_id \in DOMAIN _breach_history
  /\ _breach_history[bev.portfolio_id] # <<>>
  /\ \E q \in DOMAIN _breach_history : q # bev.portfolio_id /\ _breach_history[q] # <<>>

\* C16: send_alert_email ends by returning a log entry, never by raising; SendGrid is
\* attempted first and exactly when it is configured, SMTP is attempted exactly when it
\* is configured and SendGrid was not configured or did not send; the entry says sent
\* exactly when the last attempt sent, names the last provider attempted (none when no
\* provider is configured), and an entry that is not sent has every configured provider
\* attempted and failed, and carries an error text.
C16_DispatchResult ==
  /\ args.fn = "send_alert_email" => args.pc \in {"sendgrid", "smtp"}
  /\ ret.fn = "send_alert_email" =>
        /\ ~ret.raised
        /\ LET tried == ret.tried
               Did(pr) == \E i \in DOMAIN tried : tried[i].provider = pr
               Sent(pr) == \E i \in DOMAIN tried : tried[i].provider = pr /\ tried[i].sent
           IN  /\ Did("sendgrid") <=> sendgrid_configured
               /\ Did("sendgrid") => tried[1].provider = "sendgrid"
               /\ Did("smtp") <=> (smtp_configured /\ (~sendgrid_configured \/ ~Sent("sendgrid")))
               /\ Len(tried) <= 2
               /\ ret.log.sent <=> (tried # <<>> /\ tried[Len(tried)].sent)
               /\ ret.log.provider_used =
                     IF tried = <<>> THEN "none" ELSE tried[Len(tried)].provider
               /\ ~ret.log.sent =>
                     /\ sendgrid_configured => (Did("sendgrid") /\ ~Sent("sendgrid"))
                     /\ smtp_configured => (Did("smtp") /\ ~Sent("smtp"))
                     /\ ret.log.error # ""

\* SendGrid's client raised, the SMTP fallback failed too, and the call returned an unsent
\* entry naming smtp with an error text
C16_Witness ==
  /\ ret.fn = "send_alert_email" /\ ~ret.raised
  /\ ret.tried = <<[provider |-> "sendgrid", sent |-> FALSE], [provider |-> "smtp", sent |-> FALSE]>>
  /\ ~ret.log.sent /\ ret.log.provider_used = "smtp" /\ ret.log.error = "SMTP error"

C18_StopLossFloor ==
  (ret.fn = "compute_price_targets"
     /\ args.current_price > 0 /\ args.avg_cost > 0 /\ args.beta > 0)
    => ret.targets.stop_loss * 100 >= args.avg_cost * 85

\* C19 as claimed: the summary of an empty position list is returned with every amount,
\* percentage and count at zero, and the VaR of an empty position list ends in an
\* explicit insufficient-data or invalid-input outcome, not in an exception nobody
\* handles.
C19_EmptyPortfolio ==
  /\ (ret.fn = "compute_portfolio_summary" /\ args.positions = <<>>) =>
        /\ ~ret.raised
        /\ \A f \in {"total_value", "cost_basis", "total_gain_loss", "total_gain_loss_pct",
                      "day_gain_loss", "portfolio_beta", "positions_count", "var_1d_95",
                      "expected_shortfall"} : ret.value[f] = 0
  /\ (ret.fn = "compute_var" /\ args.positions = <<>>) =>
        \/ ~ret.raised /\ ret.value \in {"InsufficientData", "InvalidInput"}
        \/ ret.raised /\ ret.exception \in {"InsufficientData", "InvalidInput", "ValueError"}

\* C20 as claimed: under each distribution family, for one portfolio and one time
\* horizon, the VaR computed at a lower confidence level is strictly less than the VaR
\* computed at a higher one.
C20_VarMonotone ==
  ret.fn = "compute_multi_var" =>
    \A i, j \in DOMAIN ret.value.results :
      LET a == ret.value.results[i]
          b == ret.value.results[j]
      IN  (a.time_horizon = b.time_horizon /\ a.confidence_level < b.confidence_level)
            => a.var_amount < b.var_amount

C23_EmailBackfill ==
  [][ /\ \A a \in ev'.attempts : a.created =>
            /\ a.emailed <=> (config.enabled /\ config.user_email # "")
            /\ \E i \in DOMAIN in_app_alerts' :
                  /\ in_app_alerts'[i].symbol = a.symbol
                  /\ in_app_alerts'[i].alert_type = a.alert_type
                  /\ in_app_alerts'[i].id > alerts_today
                  /\ ~a.emailed => ~in_app_alerts'[i].email_sent
      /\ email_logs' # email_logs =>
            /\ Tail(email_logs') = email_logs
            /\ \A j \in DOMAIN email_logs : email_logs[j].id # email_logs'[1].id
            /\ \E i \in DOMAIN in_app_alerts' :
                  /\ in_app_alerts'[i].id = email_logs'[1].id
                  /\ in_app_alerts'[i].email_sent = email_logs'[1].sent
    ]_vars

\* C23 as the code has it: the same, but the flag is backfilled only if the alert is
\* still in the buffer when the dispatch completes: when the alerts were cleared in the
\* meantime the log entry is added and no alert is changed.  No other alert is changed
\* by a backfill, and an alert has email_sent true only if a log entry of its firing
\* says sent.
C23_EmailBackfillIfPresent ==
  [][ /\ \A a \in ev'.attempts : a.created =>
            /\ a.emailed <=> (config.enabled /\ config.user_email # "")
            /\ \E i \in DOMAIN in_app_alerts' :
                  /\ in_app_alerts'[i].symbol = a.symbol
                  /\ in_app_alerts'[i].alert_type = a.alert_type
                  /\ in_app_alerts'[i].id > alerts_today
                  /\ ~a.emailed => ~in_app_alerts'[i].email_sent
      /\ email_logs' # email_logs =>
            LET log == email_logs'[1]
            IN  /\ Tail(email_logs') = email_logs
                /\ \A j \in DOMAIN email_logs : email_logs[j].id # log.id
                /\ \A i \in DOMAIN in_app_alerts :
                      \E k \in DOMAIN in_app_alerts' :
                        in_app_alerts'[k] =
                          IF in_app_alerts[i].id = log.id
                          THEN [in_app_alerts[i] EXCEPT !.email_sent = log.sent]
                          ELSE in_app_alerts[i]
                /\ (log.id <= alerts_today
                       /\ \A i \in DOMAIN in_app_alerts : in_app_alerts[i].id # log.id)
                      => \A k \in DOMAIN in_app_alerts' : in_app_alerts'[k].id # log.id
      /\ \A k \in DOMAIN in_app_alerts' :
            in_app_alerts'[k].email_sent =>
              \E j \in DOMAIN email_logs' :
                email_logs'[j].id = in_app_alerts'[k].id /\ email_logs'[j].sent
    ]_vars

\* the buffer holds an alert whose dispatch completed and sent, with its flag set, and a
\* later alert that fired without a dispatch, with its flag false
C23_Witness ==
  /\ Len(in_app_alerts) = 2
  /\ in_app_alerts[2].email_sent
  /\ \E j \in DOMAIN email_logs : email_logs[j].id = in_app_alerts[2].id /\ email_logs[j].sent
  /\ ~in_app_alerts[1].email_sent
  /\ \A j \in DOMAIN email_logs : email_logs[j].id # in_app_alerts[1].id
  /\ test.pc = "none" /\ loop.pc # "email"

\* C24 as claimed: a step of get_quote (through any provider or the simulated fallback)
\* changes no shared state but the request counter of Alpha Vantage.
C24_OnlyQuotaCounters ==
  [][ (qbatch.pc = "gather" /\ qbatch' = qbatch /\ qtasks' # qtasks) =>
        /\ sim_prices' = sim_prices
        /\ UNCHANGED <<avars, bvars, pvars, av_configured, td_configured, today>>
    ]_vars

\* C24 as the code has it: a step of get_quote changes no shared state but the request
\* counter of Alpha Vantage, which goes up by one for today when a request is answered,
\* and the table of simulated prices, in which the symbol resolved gets its entry
\* whenever the simulated quote is built: on the simulated fallback and on a price
\* from Twelve Data, and on no other path.
C24_QuotaAndSimPrices ==
  [][ (qbatch.pc = "gather" /\ qbatch' = qbatch /\ qtasks' # qtasks) =>
        /\ UNCHANGED <<avars, bvars, pvars, av_configured, td_configured, today>>
        /\ \A d \in Dates :
              rate_counter'[d] # rate_counter[d] =>
                /\ d = today /\ rate_counter'[d] = rate_counter[d] + 1
                /\ \E i \in DOMAIN qtasks : qtasks[i].pc = "av" /\ qtasks'[i].pc # "av"
        /\ sim_prices \subseteq sim_prices'
        /\ \A i \in DOMAIN qtasks :
              (qtasks[i].pc # "done" /\ qtasks'[i].pc = "done") =>
                IF qtasks'[i].result \in {"simulated", "twelve_data"}
                THEN sim_prices' = sim_prices \cup {qtasks[i].symbol}
                ELSE sim_prices' = sim_prices
        /\ sim_prices' # sim_prices =>
              \E i \in DOMAIN qtasks : qtasks[i].pc # "done" /\ qtasks'[i].pc = "done"
    ]_vars

\* a resolution that ended with a price from Twelve Data, after a counted request to
\* Alpha Vantage, left an entry for its symbol in the table of simulated prices
C24_Witness ==
  \E i \in DOMAIN qtasks :
    /\ qtasks[i].result = "twelve_data" /\ qtasks[i].symbol \in sim_prices
    /\ rate_counter[today] > 0 /\ issued[today] = 1

\* C25 as claimed: when the rates factor is perturbed, the beta of a position in a
\* rate-sensitive sector (financials, real estate), the sector being the one the
\* engine's metadata assigns or any other name of it, moves from its value by a
\* strictly larger proportion than the beta of a position in any other sector.
C25_RateSensitivity ==
  (ret.fn = "_perturb_positions" /\ args.factor_name = "rates") =>
    LET RateSensitive(sector) == sector \in {"Financials", "Financial Services", "Real Estate"}
        Abs(x) == IF x < 0 THEN 0 - x ELSE x
        \* the proportion by which the beta of position i moved, in hundred-thousandths
        Moved(i) == Abs(ret.value[i].beta - args.positions[i].beta * 1000)
                      \div args.positions[i].beta
    IN  \A i, j \in DOMAIN args.positions :
          (RateSensitive(args.positions[i].sector) /\ ~RateSensitive(args.positions[j].sector))
            => Moved(i) > Moved(j)

\* C26 as claimed: for every path count the interface accepts, the convergence series of
\* the Monte Carlo result has at least 20 points, its prefix sizes increase strictly by
\* steps of at least 1 and none exceeds the path count.
C26_ConvergenceSeries ==
  ret.fn = "run_monte_carlo" =>
    /\ Len(ret.convergence) >= 20
    /\ \A i \in DOMAIN ret.convergence : ret.convergence[i] <= ret.paths
    /\ \A i \in 1 .. (Len(ret.convergence) - 1) :
          ret.convergence[i + 1] - ret.convergence[i] >= 1

\* C27: a re-registration (a step that changes the registry while the task stays where
\* it is and checks nothing) leaves as registry exactly the list it was given, and leaves
\* the cooldown table, the in-app alerts, the email log, the configuration and the alert
\* counter as they were; so, cycles and re-registrations being all that happens, every
\* key that fired is in cooldown, and an attempt on it inside the window creates nothing.
C27_ReRegistration ==
  [][ /\ (holdings' # holdings /\ loop'.pc = loop.pc /\ ev'.attempts = {}) =>
            /\ holdings' \in LifeHoldingLists
            /\ UNCHANGED <<cooldowns, in_app_alerts, email_logs, config, alerts_today>>
      /\ \A k \in Keys : lastFire'[k] # None =>
            (cooldowns'[k] = lastFire'[k] /\ ~_can_send(cooldowns', k[1], k[2], now'))
      /\ \A a \in ev'.attempts :
            (a.prev # None /\ a.at - a.prev < ALERT_COOLDOWN_HOURS) => ~a.created
    ]_vars

\* a key of one list fired, the other list was registered in its place and fired a key
\* of its own, the first list was registered again, and the cycle that then checked
\* the first key was suppressed by the cooldown
C27_Witness ==
  /\ Len(in_app_alerts) = 2
  /\ in_app_alerts[1].symbol # in_app_alerts[2].symbol
  /\ \E a \in ev.attempts :
        /\ a.via = "loop" /\ a.prev # None /\ ~a.created
        /\ a.symbol = in_app_alerts[2].symbol /\ a.alert_type = in_app_alerts[2].alert_type

\* C28 as claimed: when send_test_alert returns for a registered symbol, what it
\* returns is the in-app alert its own firing created: that alert's id, with the
\* symbol and the alert type of the request, whatever the monitoring task and the
\* other requests did while its email dispatch was in flight.
C28_TestReturnsOwnAlert ==
  [][ ( /\ ev'.returned.kind # "none"
        /\ FindHolding(holdings, ev'.returned.symbol) # <<>> ) =>
          /\ ev'.returned.kind = "alert"
          /\ ev'.returned.alert.id =
                (IF test.pc = "email" THEN test.alert ELSE alerts_today + 1)
          /\ ev'.returned.alert.symbol = ev'.returned.symbol
          /\ ev'.returned.alert.alert_type = ev'.returned.alert_type
    ]_vars

\* C29 as claimed: whenever the monitoring task creates an in-app alert, alerting is
\* enabled (config.enabled) and the toggle of the alert's type is on, in the
\* configuration as it is at that moment, whatever update_config changed while the
\* cycle was suspended in its quote fetch or in an email dispatch.
C29_LoopRespectsConfig ==
  [][ \A a \in ev'.attempts :
        (a.via = "loop" /\ a.created) =>
          (config'.enabled /\ Toggle(config', a.alert_type))
    ]_vars

\* C30 as claimed: after every operation on the portfolio store, no two stored
\* positions have the same symbol and every stored position has shares above 0 and an
\* average cost above 0; an update or a delete of an id that is not stored answers
\* not-found and leaves the store as it was.
C30_StoreInvariant ==
  [][ /\ \A i, j \in DOMAIN _positions' :
            _positions'[i].symbol = _positions'[j].symbol => i = j
      /\ \A i \in DOMAIN _positions' :
            _positions'[i].shares > 0 /\ _positions'[i].avg_cost > 0
      /\ ( /\ args'.fn \in {"update_position", "delete_position"}
           /\ Stored(args'.position_id) = 0 ) =>
              (ret'.status = 404 /\ _positions' = _positions)
    ]_vars

====
